---- MODULE Spec2Model ----
(***************************************************************************)
(* Two browser processes, each running one P2PSocketService singleton      *)
(* (src/services/socketService.ts) under the App component                 *)
(* (src/unnamed/part_002), joined by the PeerJS signalling service and     *)
(* data connections.                                                       *)
(*                                                                         *)
(* Every handler of the service is one action.  A handler is written as an *)
(* operator from a "world" record (one field per variable) to a world      *)
(* record, so that the calls a handler makes (disconnect, send, trigger,   *)
(* the listeners trigger runs synchronously, ...) compose in source order. *)
(*                                                                         *)
(* Strings that the code takes apart (room codes, peer ids) are sequences  *)
(* of one-character strings.  Opaque strings (user ids, names, event       *)
(* names) are TLA+ strings; JavaScript's null is the string "null".        *)
(*                                                                         *)
(* Left out of the state: GameState.message, GameState.isRolling and       *)
(* Player.lastRoll (rendering only), console output, and the Lobby's       *)
(* error text.                                                             *)
(***************************************************************************)
EXTENDS Integers, Sequences, FiniteSets, TLC

(***************************************************************************)
(* Bounds of the model.                                                    *)
(***************************************************************************)
MaxPeers == 4        \* Peer objects constructed over a run, all processes
DuelPeers == 3       \* Peer objects constructed over a run of two browsers
MaxTimers == 3       \* timers pending at once in one process
NumCodes == 1        \* room codes Math.random can produce: 1000 .. 1000+NumCodes-1
MaxInbox == 1        \* messages in flight to one end of a connection
StorePeers == 2      \* Peer objects constructed over a run of the store specification
MaxListeners == 3    \* registrations held for one event in the bus specification (SpecBus)
MaxStoredWins == 2   \* largest win count of a stored user in the store specification (SpecStore)
MaxFace == 2         \* faces the dice show in the session specification (Spec)

(***************************************************************************)
(* Program constants.                                                      *)
(***************************************************************************)
DieSides == 6        \* Math.floor(Math.random() * 6) + 1
MinCode == 1000      \* Math.floor(1000 + Math.random() * 9000)

Procs == {1, 2}      \* the two browsers of a duel
Browsers == {1, 2, 3} \* every browser that has the page open; 3 is a second guest
Hosts == {1}         \* the browsers whose user clicks "create"; either may join
Names == {"ann", "bob"}
Null == "null"
ID_PREFIX == <<"c", "u", "b", "e", "-", "v", "1", "4", "-">>

\* SocketEvents (types.ts) and the one message type that is a literal; CONNECT_ERROR
\* is the member that socketService.ts and Lobby.tsx use for failures of a join
MATCH_CREATED == "match_created"
MATCH_START == "match_start"
DICE_RESULT == "dice_result"
MATCH_END == "match_end"
ERROR == "error"
LEADERBOARD_DATA == "leaderboard_data"
CONNECT_ERROR == "connect_error"
LOGIN_SUCCESS == "login_success"
LOGIN_FAIL == "login_fail"
JOIN_REQUEST == "JOIN_REQUEST"

\* RoomStatus
PENDING == "PENDING"
ACTIVE == "ACTIVE"
COMPLETE == "COMPLETE"

INITIAL_GAME_STATE ==
  [roomId |-> <<>>, status |-> PENDING, players |-> <<>>, roundWinnerId |-> Null]

(***************************************************************************)
(* Strings as sequences of characters.                                     *)
(***************************************************************************)
DigitChar(d) == <<"0", "1", "2", "3", "4", "5", "6", "7", "8", "9">>[d + 1]

\* Number.prototype.toString for a natural number
RECURSIVE NumToString(_)
NumToString(n) ==
  IF n < 10 THEN <<DigitChar(n)>>
  ELSE Append(NumToString(n \div 10), DigitChar(n % 10))

IsPrefixAt(s, pat, i) ==
  /\ i + Len(pat) - 1 <= Len(s)
  /\ \A j \in 1 .. Len(pat) : s[i + j - 1] = pat[j]

\* String.prototype.replace(pat, ''): the first occurrence of pat is removed
StrReplace(s, pat) ==
  LET hits == {i \in 1 .. Len(s) : IsPrefixAt(s, pat, i)}
  IN IF hits = {} \/ pat = <<>> THEN s
     ELSE LET i == CHOOSE x \in hits : \A y \in hits : x <= y
          IN SubSeq(s, 1, i - 1) \o SubSeq(s, i + Len(pat), Len(s))

\* String.prototype.trim
RECURSIVE StrTrim(_)
StrTrim(s) ==
  IF s = <<>> THEN s
  ELSE IF Head(s) = " " THEN StrTrim(Tail(s))
  ELSE IF s[Len(s)] = " " THEN StrTrim(SubSeq(s, 1, Len(s) - 1))
  ELSE s

\* createHost: shortCode and fullId
ShortCodes == {NumToString(MinCode + i) : i \in 0 .. NumCodes - 1}
FullId(shortCode) == ID_PREFIX \o shortCode
CodeSpan == 9000     \* Math.floor(1000 + Math.random() * 9000): 1000 .. 9999
AllCodes == {NumToString(MinCode + i) : i \in 0 .. CodeSpan - 1}
\* what a user may type for a code in the lobby's input: spaces around it are trimmed by joinHost
Typed(shortCode) == {shortCode, <<" ">> \o shortCode \o <<" ">>}

(***************************************************************************)
(* Identities.  handleLogin mints 'u_' + time + random once per            *)
(* registration in a browser's own store, so an id is unique to the        *)
(* (browser, username) pair.                                               *)
(***************************************************************************)
NewUserId(p, name) == "u_" \o name \o "_" \o ToString(p)
NoUser == [id |-> Null, name |-> Null]
UserOf(p, name) == [id |-> NewUserId(p, name), name |-> name]

VARIABLES
  currentUser,        \* [Procs -> identity or NoUser]
  isHost,             \* [Procs -> BOOLEAN]
  peer,               \* [Procs -> index into peers, 0 for null]
  conn,               \* [Procs -> index into conns, 0 for null]
  peerId,             \* [Procs -> peer id string, <<>> for null]
  players,            \* [Procs -> sequence of Player]
  gameLoopTimeout,    \* [Procs -> 0 for null, 1 for a timer id]
  connectionTimeout,  \* same, for the guest's global timeout
  peers,              \* every Peer object constructed so far
  conns,              \* the data connection dialed by guest peer k, for k in 1..MaxPeers
  timers,             \* [Procs -> sequence of pending setTimeout callbacks]
  gameState,          \* App: [Procs -> GameState]
  view,               \* App: [Procs -> "LOGIN", "LOBBY", "GAME"]
  isJoining,          \* Lobby: [Procs -> BOOLEAN], the Join button is disabled while TRUE
  db,                 \* localStorage dc_users_db_v1: [Procs -> [Names -> record]]
  listeners,          \* [Procs -> [event name -> sequence of registered callbacks]]
  session,            \* sessionStorage dc_user: [Procs -> identity or NoUser for no item]
  out,                \* what the last step did: events raised, messages sent, closes, destroys
  act,                \* the last step taken and its inputs
  decided,            \* [Procs -> has a decisive round been produced since players was last bound]
  decisiveRounds      \* decisive rounds produced so far, all hosts

vars == <<currentUser, isHost, peer, conn, peerId, players, gameLoopTimeout,
          connectionTimeout, peers, conns, timers, gameState, view, isJoining, db, listeners, session, out, act,
          decided, decisiveRounds>>

\* The current state as a world record; ok is cleared when a step would exceed a bound
Cur ==
  [currentUser |-> currentUser, isHost |-> isHost, peer |-> peer, conn |-> conn,
   peerId |-> peerId, players |-> players, gameLoopTimeout |-> gameLoopTimeout,
   connectionTimeout |-> connectionTimeout, peers |-> peers, conns |-> conns,
   timers |-> timers, gameState |-> gameState, view |-> view, isJoining |-> isJoining,
   db |-> db, listeners |-> listeners, session |-> session,
   decided |-> decided, decisiveRounds |-> decisiveRounds,
   out |-> <<>>, ok |-> TRUE]

Commit(w, a) ==
  /\ w.ok
  /\ currentUser' = w.currentUser
  /\ isHost' = w.isHost
  /\ peer' = w.peer
  /\ conn' = w.conn
  /\ peerId' = w.peerId
  /\ players' = w.players
  /\ gameLoopTimeout' = w.gameLoopTimeout
  /\ connectionTimeout' = w.connectionTimeout
  /\ peers' = w.peers
  /\ conns' = w.conns
  /\ timers' = w.timers
  /\ gameState' = w.gameState
  /\ view' = w.view
  /\ isJoining' = w.isJoining
  /\ db' = w.db
  /\ listeners' = w.listeners
  /\ session' = w.session
  /\ out' = w.out
  /\ act' = a
  /\ decided' = w.decided
  /\ decisiveRounds' = w.decisiveRounds

\* act: the step's name, its process, the dice it drew, whether it ran a dead callback
Did(name, p) == [name |-> name, p |-> p, a |-> 0, b |-> 0, dead |-> FALSE]
Ran(name, p, t) == [name |-> name, p |-> p, a |-> 0, b |-> 0, dead |-> t.dead]

(***************************************************************************)
(* Timers (window.setTimeout / clearTimeout).  timers[p] lists the pending *)
(* callbacks of process p in the order they were scheduled.  A callback is *)
(* [kind, winnerId, held, dead]: kind names the setTimeout call, winnerId  *)
(* is what the callback closed over, held says that the service field for  *)
(* that kind of timer (gameLoopTimeout, connectionTimeout) holds this      *)
(* callback's id, dead records that disconnect() has run since the         *)
(* callback was scheduled.  The two fields are 0 for null and 1 for an id  *)
(* (of a held callback, or of one that has run or was cleared).            *)
(***************************************************************************)
T_JOIN == "connectionTimeout"   \* socketService.ts:178
T_START == "start"              \* socketService.ts:323
T_REROLL == "reroll"            \* socketService.ts:361
T_REVEAL == "reveal"            \* socketService.ts:355
T_REJECT == "reject"            \* socketService.ts:294
T_UIDICE == "uiDice"            \* App handleDiceResult
ServiceTimers == {T_JOIN, T_START, T_REROLL, T_REVEAL, T_REJECT}

JOIN_TIMEOUT_MS == 15000
START_DELAY_MS == 2000
REROLL_DELAY_MS == 4000
REVEAL_DELAY_MS == 3500
REJECT_DELAY_MS == 500
UIDICE_DELAY_MS == 1000

Delay(kind) ==
  CASE kind = T_JOIN -> JOIN_TIMEOUT_MS
    [] kind = T_START -> START_DELAY_MS
    [] kind = T_REROLL -> REROLL_DELAY_MS
    [] kind = T_REVEAL -> REVEAL_DELAY_MS
    [] kind = T_REJECT -> REJECT_DELAY_MS
    [] kind = T_UIDICE -> UIDICE_DELAY_MS

\* setTimeout; held is TRUE when the caller assigns the id to the service field
setTimeout(w, p, kind, winnerId, held) ==
  IF Len(w.timers[p]) >= MaxTimers THEN [w EXCEPT !.ok = FALSE]
  ELSE [w EXCEPT !.timers[p] =
          Append([i \in DOMAIN @ |-> IF held /\ @[i].kind = kind
                                     THEN [@[i] EXCEPT !.held = FALSE] ELSE @[i]],
                 [kind |-> kind, winnerId |-> winnerId, held |-> held, dead |-> FALSE])]

RemoveAt(seq, i) == SubSeq(seq, 1, i - 1) \o SubSeq(seq, i + 1, Len(seq))

RECURSIVE SelectNot(_, _)
SelectNot(seq, kind) ==
  IF seq = <<>> THEN seq
  ELSE IF Head(seq).held /\ Head(seq).kind = kind THEN SelectNot(Tail(seq), kind)
  ELSE <<Head(seq)>> \o SelectNot(Tail(seq), kind)

\* clearTimeout(handle) for the field that holds ids of callbacks of this kind
clearTimeoutNever(w, p, kind) == w

\* window.clearTimeout of the id held by the field for that kind of timer
clearTimeout(w, p, kind) == [w EXCEPT !.timers[p] = SelectNot(@, kind)]

\* Callback i of process p may run now: none scheduled before it is due earlier or together
Due(p, i) ==
  /\ i \in DOMAIN timers[p]
  /\ \A j \in 1 .. i - 1 : Delay(timers[p][j].kind) > Delay(timers[p][i].kind)

\* The callback runs and is gone
DropTimer(w, p, i) == [w EXCEPT !.timers[p] = RemoveAt(@, i)]

(***************************************************************************)
(* App listeners (src/unnamed/part_002), run synchronously by trigger.     *)
(* The App renders the Lobby only while view is LOBBY: leaving that view   *)
(* unmounts the Lobby and its isJoining state starts at false again.       *)
(***************************************************************************)
getUserId(w, p) == IF w.currentUser[p] = NoUser THEN "guest" ELSE w.currentUser[p].id

\* loading and loginError are not part of the model
handleLoginSuccess(w, p) == [w EXCEPT !.view[p] = "LOBBY", !.isJoining[p] = FALSE]

handleMatchCreated(w, p, data) ==
  [w EXCEPT !.gameState[p].roomId = data.roomId,
            !.gameState[p].status = PENDING,
            !.view[p] = "GAME",
            !.isJoining[p] = FALSE]

handleMatchStart(w, p, data) ==
  LET formattedPlayers ==
        [i \in DOMAIN data.players |->
           [data.players[i] EXCEPT !.isSelf = (data.players[i].id = getUserId(w, p))]]
  IN [w EXCEPT !.gameState[p].roomId = data.roomId,
               !.gameState[p].status = ACTIVE,
               !.gameState[p].players = formattedPlayers,
               !.view[p] = "GAME",
               !.isJoining[p] = FALSE]

handleDiceResult(w, p, data) == setTimeout(w, p, T_UIDICE, data.winnerId, FALSE)

handleMatchEndNoGuard(w, p, data) ==
  [w EXCEPT !.gameState[p].status = COMPLETE,
            !.gameState[p].roundWinnerId = data.winnerId]

handleMatchEnd(w, p, data) ==
  IF /\ w.gameState[p].status = COMPLETE
     /\ w.gameState[p].roundWinnerId # Null
     /\ data.winnerId = Null
  THEN w
  ELSE [w EXCEPT !.gameState[p].status = COMPLETE,
                 !.gameState[p].roundWinnerId = data.winnerId]

handleReset(w, p) ==
  [w EXCEPT !.gameState[p] = INITIAL_GAME_STATE, !.view[p] = "LOBBY"]

\* Lobby: the listener of CONNECT_ERROR and ERROR, registered while the Lobby is mounted
handleError(w, p, data) ==
  IF w.view[p] = "LOBBY" THEN [w EXCEPT !.isJoining[p] = FALSE] ELSE w

(***************************************************************************)
(* Event bus: trigger(event, data) runs every listener of the event.  The  *)
(* App registers its listeners once, on mount, and keeps them.             *)
(***************************************************************************)
trigger(w, p, event, data) ==
  LET w1 == [w EXCEPT !.out = Append(@, [kind |-> "event", p |-> p, type |-> event, data |-> data])]
  IN CASE event = LOGIN_SUCCESS -> handleLoginSuccess(w1, p)
       [] event = MATCH_CREATED -> handleMatchCreated(w1, p, data)
       [] event = MATCH_START -> handleMatchStart(w1, p, data)
       [] event = DICE_RESULT -> handleDiceResult(w1, p, data)
       [] event = MATCH_END -> handleMatchEnd(w1, p, data)
       [] event \in {CONNECT_ERROR, ERROR} -> handleError(w1, p, data)
       [] OTHER -> w1

(***************************************************************************)
(* PeerJS objects.  peers[k] is [owner, host, id, target, st, dials], with  *)
(* dials the number of peer.connect calls made on it so far; conns[k] is   *)
(* the connection guest peer k dialed: st[side], handlers[side] (has       *)
(* setupConnectionHandlers run on that end), inbox[side], hp (the host     *)
(* peer that got it), for side "g" (the dialing end) and "h"; sent is the  *)
(* set of message types the host has sent over it so far, sentByGuest the  *)
(* types of the messages the dialing end has sent, in order.               *)
(***************************************************************************)
NoConn ==
  [st |-> [g |-> "none", h |-> "none"], handlers |-> [g |-> FALSE, h |-> FALSE],
   inbox |-> [g |-> <<>>, h |-> <<>>], hp |-> 0, sent |-> {}, sentByGuest |-> <<>>]

Other(side) == IF side = "g" THEN "h" ELSE "g"
SideOf(w, p, k) == IF w.peers[k].owner = p THEN "g" ELSE "h"
ConnOpen(w, p, k) == k # 0 /\ w.conns[k].st[SideOf(w, p, k)] = "open"

onConnCloseGuestOnly(w, p) ==
  IF ~w.isHost[p]
  THEN trigger(trigger(w, p, MATCH_END, [winnerId |-> Null]), p, ERROR,
               [message |-> "Disconnected from Host."])
  ELSE w

\* setupConnectionHandlers, the 'close' listener
onConnClose(w, p) ==
  LET w1 == trigger(w, p, MATCH_END, [winnerId |-> Null])
  IN IF ~w1.isHost[p] THEN trigger(w1, p, ERROR, [message |-> "Disconnected from Host."])
     ELSE w1

\* An end of connection k goes to closed; PeerJS emits 'close' only on an end that was open
EndClosed(w, p, k, side) ==
  LET was == w.conns[k].st[side]
      w1 == [w EXCEPT !.conns[k].st[side] = "closed", !.conns[k].inbox[side] = <<>>]
  IN IF was = "open" /\ w.conns[k].handlers[side] THEN onConnClose(w1, p) ELSE w1

\* DataConnection.close() called by process p on its end of connection k
connClose(w, p, k) ==
  LET w1 == [w EXCEPT !.out = Append(@, [kind |-> "close", p |-> p, conn |-> k])]
  IN IF w1.conns[k].st[SideOf(w, p, k)] = "closed" THEN w1
     ELSE EndClosed(w1, p, k, SideOf(w, p, k))

\* The connections of peer h, as indices into conns
ConnsOfPeer(w, h) ==
  {k \in 1 .. Len(w.peers) :
     /\ w.conns[k].st.g # "none"
     /\ \/ k = h
        \/ w.conns[k].hp = h}

RECURSIVE CloseAll(_, _, _)
CloseAll(w, p, ks) ==
  IF ks = {} THEN w
  ELSE LET k == CHOOSE x \in ks : \A y \in ks : x <= y
           side == SideOf(w, p, k)
           w1 == IF w.conns[k].st[side] = "closed" THEN w ELSE EndClosed(w, p, k, side)
       IN CloseAll(w1, p, ks \ {k})

\* Peer.destroy(): the endpoint is released and every connection of it is closed
peerDestroy(w, p, h) ==
  LET w1 == [w EXCEPT !.out = Append(@, [kind |-> "destroy", p |-> p, peer |-> h])]
  IN IF w1.peers[h].st = "destroyed" THEN w1
     ELSE CloseAll([w1 EXCEPT !.peers[h].st = "destroyed"], p, ConnsOfPeer(w1, h))

\* new Peer(...)
newPeer(w, p, host, shortCode, id, target) ==
  IF Len(w.peers) >= MaxPeers THEN [w EXCEPT !.ok = FALSE]
  ELSE [w EXCEPT !.peers = Append(@, [owner |-> p, host |-> host, shortCode |-> shortCode, id |-> id,
                                       target |-> target, st |-> "new", dials |-> 0]),
                 !.peer[p] = Len(w.peers) + 1]

(***************************************************************************)
(* P2PSocketService (src/services/socketService.ts).                       *)
(***************************************************************************)
stopGameLoop(w, p) ==
  IF w.gameLoopTimeout[p] # 0 THEN clearTimeout(w, p, T_REROLL) ELSE w

clearSessionKeepConn(w, p) == [w EXCEPT !.peer[p] = 0, !.players[p] = <<>>]

\* disconnect, its last three assignments
clearSession(w, p) == [w EXCEPT !.conn[p] = 0, !.peer[p] = 0, !.players[p] = <<>>]

disconnect(w, p) ==
  LET w1 == stopGameLoop(w, p)
      w2 == IF w1.connectionTimeout[p] # 0 THEN clearTimeout(w1, p, T_JOIN) ELSE w1
      w3 == IF w2.conn[p] # 0 THEN connClose(w2, p, w2.conn[p]) ELSE w2
      w4 == IF w3.peer[p] # 0 THEN peerDestroy(w3, p, w3.peer[p]) ELSE w3
  IN [clearSession(w4, p) EXCEPT
        !.decided[p] = FALSE,
        !.timers[p] = [i \in DOMAIN @ |->
                         IF @[i].kind \in ServiceTimers THEN [@[i] EXCEPT !.dead = TRUE]
                         ELSE @[i]]]

send(w, p, msg) ==
  LET k == w.conn[p]
  IN IF ConnOpen(w, p, k)
     THEN LET o == Other(SideOf(w, p, k))
              w1 == [w EXCEPT !.out = Append(@, [kind |-> "send", p |-> p, conn |-> k, msg |-> msg]),
                              !.conns[k].sent = IF o = "g" THEN @ \cup {msg.type} ELSE @,
                              !.conns[k].sentByGuest = IF o = "h" THEN Append(@, msg.type) ELSE @]
          IN IF w1.conns[k].st[o] = "closed" THEN w1
             ELSE IF Len(w1.conns[k].inbox[o]) >= MaxInbox THEN [w1 EXCEPT !.ok = FALSE]
             ELSE [w1 EXCEPT !.conns[k].inbox[o] = Append(@, msg)]
     ELSE w

\* db[key].wins || 0: a record written before wins existed has no such field
WinsOf(record) == IF "wins" \in DOMAIN record THEN record.wins ELSE 0
WithWins(record, n) ==
  [f \in DOMAIN record \cup {"wins"} |-> IF f = "wins" THEN n ELSE record[f]]

checkAndRecordWinTwice(w, p, winnerId) ==
  IF w.currentUser[p] = NoUser \/ winnerId = Null THEN w
  ELSE IF w.currentUser[p].id = winnerId /\ w.currentUser[p].name \in DOMAIN w.db[p]
       THEN [w EXCEPT !.db[p][w.currentUser[p].name] = WithWins(@, WinsOf(@) + 2)]
       ELSE w

checkAndRecordWin(w, p, winnerId) ==
  IF w.currentUser[p] = NoUser \/ winnerId = Null THEN w
  ELSE IF w.currentUser[p].id = winnerId /\ w.currentUser[p].name \in DOMAIN w.db[p]
       THEN [w EXCEPT !.db[p][w.currentUser[p].name] = WithWins(@, WinsOf(@) + 1)]
       ELSE w

createHostAnyone(w, p, shortCode) ==
  newPeer([disconnect(w, p) EXCEPT !.isHost[p] = TRUE], p, TRUE, shortCode, FullId(shortCode), <<>>)

\* private createHost(), with the Math.random draw as argument
createHost(w, p, shortCode) ==
  IF w.currentUser[p] = NoUser THEN w
  ELSE LET w1 == disconnect(w, p)
           w2 == [w1 EXCEPT !.isHost[p] = TRUE]
       IN newPeer(w2, p, TRUE, shortCode, FullId(shortCode), <<>>)

joinHost(w, p, shortCode) ==
  IF w.currentUser[p] = NoUser THEN w
  ELSE LET w1 == disconnect(w, p)
           w2 == [w1 EXCEPT !.isHost[p] = FALSE]
           w3 == newPeer(w2, p, FALSE, shortCode, <<>>, ID_PREFIX \o StrTrim(shortCode))
           w4 == setTimeout(w3, p, T_JOIN, Null, TRUE)
       IN [w4 EXCEPT !.connectionTimeout[p] = 1]

\* players.find(p => p.isSelf); NoPlayer stands for undefined
NoPlayer == [id |-> Null, name |-> Null, score |-> 0, isSelf |-> FALSE]
FindSelf(ps) ==
  LET hits == {i \in DOMAIN ps : ps[i].isSelf}
  IN IF hits = {} THEN NoPlayer
     ELSE ps[CHOOSE i \in hits : \A j \in hits : i <= j]

roomIdWithPrefix(w, p) == w.peerId[p]

\* this.peerId?.replace(this.ID_PREFIX, '')
roomIdOf(w, p) == StrReplace(w.peerId[p], ID_PREFIX)

SameNicknameNever(guestName, hostName) == FALSE

\* the nickname check of handleHostMessage
SameNickname(guestName, hostName) == guestName = hostName

handleHostMessage(w, p, msg) ==
  IF msg.type # JOIN_REQUEST THEN w
  ELSE IF SameNickname(msg.payload.name, w.currentUser[p].name)
  THEN LET w1 == send(w, p, [type |-> CONNECT_ERROR,
                             payload |-> [message |-> "Cannot play against a user with the same nickname."]])
       IN setTimeout(w1, p, T_REJECT, Null, FALSE)
  ELSE LET w1 == stopGameLoop(w, p)
           guestPlayer == [id |-> msg.payload.id, name |-> msg.payload.name,
                           score |-> 0, isSelf |-> FALSE]
           hostPlayer == FindSelf(w1.players[p])
           w2 == [w1 EXCEPT !.players[p] = <<hostPlayer, guestPlayer>>, !.decided[p] = FALSE]
           w3 == send(w2, p, [type |-> MATCH_START,
                              payload |-> [roomId |-> roomIdOf(w2, p), players |-> w2.players[p]]])
       IN IF hostPlayer = NoPlayer THEN w3    \* p.id of undefined throws in the map below
          ELSE LET w4 == trigger(w3, p, MATCH_START,
                           [roomId |-> roomIdOf(w3, p),
                            players |-> [i \in DOMAIN w3.players[p] |->
                               [w3.players[p][i] EXCEPT
                                  !.isSelf = (w3.players[p][i].id = w3.currentUser[p].id)]]])
               IN setTimeout(w4, p, T_START, Null, FALSE)

RoundWinnerLow(p1, p2, p1Roll, p2Roll) ==
  IF p1Roll < p2Roll THEN p1.id
  ELSE IF p2Roll < p1Roll THEN p2.id
  ELSE Null

\* runGameLoop: who won the round, null on equal rolls
RoundWinner(p1, p2, p1Roll, p2Roll) ==
  IF p1Roll > p2Roll THEN p1.id
  ELSE IF p2Roll > p1Roll THEN p2.id
  ELSE Null

\* runGameLoop: newRound is set in the last else
NewRound(p1Roll, p2Roll) == ~(p1Roll > p2Roll) /\ ~(p2Roll > p1Roll)

afterResultAlwaysReveal(w, p, winnerId) ==
  setTimeout(checkAndRecordWin(w, p, winnerId), p, T_REVEAL, winnerId, FALSE)

\* runGameLoop: what follows the broadcast of the result
afterResult(w, p, winnerId) ==
  IF winnerId # Null
  THEN setTimeout(checkAndRecordWin(w, p, winnerId), p, T_REVEAL, winnerId, FALSE)
  ELSE [setTimeout(w, p, T_REROLL, Null, TRUE) EXCEPT !.gameLoopTimeout[p] = 1]

\* runGameLoop with the two values Math.random gave
runGameLoopUnguarded(w, p, p1Roll, p2Roll) ==
  trigger(w, p, DICE_RESULT, [rolls |-> <<>>, winnerId |-> Null, newRound |-> TRUE])

\* private runGameLoop(), with the two Math.random draws as arguments
runGameLoop(w, p, p1Roll, p2Roll) ==
  IF ~w.isHost[p] \/ Len(w.players[p]) < 2 THEN w
  ELSE LET p1 == w.players[p][1]
           p2 == w.players[p][2]
           winnerId == RoundWinner(p1, p2, p1Roll, p2Roll)
           newRound == NewRound(p1Roll, p2Roll)
           result == [rolls |-> [i \in {p1.id, p2.id} |-> IF i = p2.id THEN p2Roll ELSE p1Roll],
                      winnerId |-> winnerId, newRound |-> newRound]
           w1 == send(w, p, [type |-> DICE_RESULT, payload |-> result])
           w2 == trigger(w1, p, DICE_RESULT, result)
           w3 == afterResult(w2, p, winnerId)
       IN IF winnerId # Null
          THEN [w3 EXCEPT !.decided[p] = TRUE, !.decisiveRounds = @ + 1]
          ELSE w3

handleGuestMessage(w, p, msg) ==
  IF msg.type = MATCH_START
  THEN trigger(w, p, MATCH_START,
         [roomId |-> msg.payload.roomId,
          players |-> [i \in DOMAIN msg.payload.players |->
             [msg.payload.players[i] EXCEPT
                !.isSelf = (msg.payload.players[i].id = w.currentUser[p].id)]]])
  ELSE IF msg.type = MATCH_END
  THEN trigger(checkAndRecordWin(w, p, msg.payload.winnerId), p, MATCH_END, msg.payload)
  ELSE trigger(w, p, msg.type, msg.payload)

\* The listeners the mounted App (part_002:151-154) and Lobby (Lobby.tsx:30-32) have
\* registered for the events of the model; trigger above has them inlined.
AppListeners ==
  [e \in {LOGIN_SUCCESS, LOGIN_FAIL, MATCH_CREATED, MATCH_START, DICE_RESULT, MATCH_END} |->
     CASE e = LOGIN_SUCCESS -> <<"handleLoginSuccess">>
       [] e = LOGIN_FAIL -> <<"handleLoginFail">>
       [] e = MATCH_CREATED -> <<"handleMatchCreated">>
       [] e = MATCH_START -> <<"handleMatchStart">>
       [] e = DICE_RESULT -> <<"handleDiceResult">>
       [] OTHER -> <<"handleMatchEnd">>]

(***************************************************************************)
(* Initial state: every browser has the page loaded and a user logged in   *)
(* (App shows the Lobby); nothing has been created or joined.              *)
(***************************************************************************)
Init ==
  /\ \E n \in Names :
       /\ currentUser = [p \in Browsers |-> IF p = 1 THEN UserOf(1, "ann") ELSE UserOf(p, n)]
       /\ db = [p \in Browsers |->
                  LET me == IF p = 1 THEN "ann" ELSE n
                  IN [u \in {me} |-> [id |-> NewUserId(p, me), password |-> "pw", wins |-> 0]]]
  /\ isHost = [p \in Browsers |-> FALSE]
  /\ peer = [p \in Browsers |-> 0]
  /\ conn = [p \in Browsers |-> 0]
  /\ peerId = [p \in Browsers |-> <<>>]
  /\ players = [p \in Browsers |-> <<>>]
  /\ gameLoopTimeout = [p \in Browsers |-> 0]
  /\ connectionTimeout = [p \in Browsers |-> 0]
  /\ peers = <<>>
  /\ conns = [k \in 1 .. MaxPeers |-> NoConn]
  /\ timers = [p \in Browsers |-> <<>>]
  /\ gameState = [p \in Browsers |-> INITIAL_GAME_STATE]
  /\ view = [p \in Browsers |-> "LOBBY"]
  /\ isJoining = [p \in Browsers |-> FALSE]
  /\ listeners = [p \in Browsers |-> AppListeners]
  /\ session = currentUser
  /\ out = <<>>
  /\ act = Did("init", 0)
  /\ decided = [p \in Browsers |-> FALSE]
  /\ decisiveRounds = 0

(***************************************************************************)
(* Intents of the user, as the components issue them.                      *)
(***************************************************************************)
\* Lobby.handleCreate -> emit(CREATE_MATCH) -> createHost
CreateMatch(p) ==
  /\ view[p] = "LOBBY" /\ ~isJoining[p]
  /\ \E shortCode \in ShortCodes : Commit(createHost(Cur, p, shortCode), Did("createHost", p))

\* Lobby.handleJoin -> emit(JOIN_MATCH) -> joinHost
JoinMatch(p) ==
  /\ view[p] = "LOBBY" /\ ~isJoining[p]
  /\ \E roomId \in ShortCodes :
       Commit(joinHost([Cur EXCEPT !.isJoining[p] = TRUE], p, roomId), Did("joinHost", p))

\* GameRoom.handleLeave -> emit(LEAVE_MATCH) -> disconnect, then onReset
LeaveMatch(p) ==
  /\ view[p] = "GAME"
  /\ Commit(handleReset(disconnect(Cur, p), p), Did("leave", p))

(***************************************************************************)
(* Callbacks of the host's Peer.                                           *)
(***************************************************************************)
IdTaken(id, h) ==
  \E j \in DOMAIN peers : j # h /\ peers[j].host /\ peers[j].id = id /\ peers[j].st = "open"

\* peer.on('open')
HostPeerOpen(h) ==
  /\ peers[h].host /\ peers[h].st = "new"
  /\ ~IdTaken(peers[h].id, h)
  /\ LET p == peers[h].owner
         w1 == [Cur EXCEPT !.peers[h].st = "open",
                           !.peerId[p] = peers[h].id,
                           !.players[p] = <<[id |-> currentUser[p].id, name |-> currentUser[p].name,
                                             score |-> 0, isSelf |-> TRUE]>>]
     IN Commit(trigger(w1, p, MATCH_CREATED, [roomId |-> peers[h].shortCode]),
               Did("hostOpen", p))

\* peer.on('connection')
HostPeerConnection(h, k) ==
  /\ peers[h].host /\ peers[h].st = "open"
  /\ conns[k].st.g = "dialing" /\ conns[k].st.h = "none"
  /\ peers[k].target = peers[h].id
  /\ LET p == peers[h].owner
         w1 == [Cur EXCEPT !.conns[k].hp = h]
     IN IF ConnOpen(w1, p, w1.conn[p])
        THEN Commit([w1 EXCEPT !.conns[k].st.h = "closed",
                               !.out = Append(@, [kind |-> "close", p |-> p, conn |-> k])],
                    Did("hostConnection", p))
        ELSE Commit([w1 EXCEPT !.conn[p] = k,
                               !.conns[k].st.h = "pending",
                               !.conns[k].handlers.h = TRUE],
                    Did("hostConnection", p))

\* peer.on('error'); PeerJS destroys a peer that fails before it opened.  The id may
\* be reserved by a browser outside the model, so unavailable-id can always happen
HostPeerError(h) ==
  /\ peers[h].host /\ peers[h].st = "new"
  /\ \E type \in {"unavailable-id", "network"} :
       /\ LET p == peers[h].owner
              w1 == [Cur EXCEPT !.peers[h].st = "destroyed"]
              message == IF type = "unavailable-id" THEN "ID Collision. Try again."
                         ELSE "Network error. Check connection."
          IN Commit(trigger(w1, p, ERROR, [message |-> message]), Did("hostError", p))

(***************************************************************************)
(* Callbacks of the guest's Peer and of the connection it dials.           *)
(***************************************************************************)
\* peer.on('open'): peer.connect(fullTargetId)
GuestPeerOpen(g) ==
  /\ ~peers[g].host /\ peers[g].st = "new"
  /\ LET p == peers[g].owner
     IN Commit([Cur EXCEPT !.peers[g].st = "open",
                           !.peers[g].dials = @ + 1,
                           !.conns[g].st.g = "dialing",
                           !.conn[p] = g],
               Did("guestOpen", p))

\* conn.on('open'): the data channel is up on both ends
GuestConnOpen(k) ==
  /\ conns[k].st.g = "dialing" /\ conns[k].st.h = "pending"
  /\ LET p == peers[k].owner
         w1 == [Cur EXCEPT !.conns[k].st.g = "open", !.conns[k].st.h = "open"]
         w2 == IF w1.connectionTimeout[p] # 0 THEN clearTimeout(w1, p, T_JOIN) ELSE w1
         w3 == [w2 EXCEPT !.conns[k].handlers.g = TRUE]
     IN Commit(send(w3, p, [type |-> JOIN_REQUEST,
                            payload |-> [id |-> w3.currentUser[p].id,
                                         name |-> w3.currentUser[p].name]]),
               Did("connOpen", p))

\* peer.on('error')
GuestPeerError(g) ==
  /\ ~peers[g].host
  /\ \E type \in {"peer-unavailable", "network"} :
       /\ type = "network" => peers[g].st = "new"
       /\ type = "peer-unavailable" =>
            /\ peers[g].st = "open"
            /\ conns[g].st.g = "dialing" /\ conns[g].st.h = "none"
            /\ ~\E h \in DOMAIN peers :
                  peers[h].host /\ peers[h].st = "open" /\ peers[h].id = peers[g].target
       /\ LET p == peers[g].owner
              w1 == IF connectionTimeout[p] # 0 THEN clearTimeout(Cur, p, T_JOIN) ELSE Cur
              message == IF type = "peer-unavailable" THEN "Room not found. Check the ID."
                         ELSE "Connection failed: network"
              w2 == trigger(w1, p, CONNECT_ERROR, [message |-> message])
          IN Commit(disconnect(w2, p), Did("guestError", p))

(***************************************************************************)
(* setupConnectionHandlers: the listeners of a bound connection.           *)
(***************************************************************************)
EndOwner(k, side) == IF side = "g" THEN peers[k].owner ELSE peers[conns[k].hp].owner

\* conn.on('data')
ConnData(k, side) ==
  /\ conns[k].st[side] = "open" /\ conns[k].handlers[side]
  /\ conns[k].inbox[side] # <<>>
  /\ LET p == EndOwner(k, side)
         msg == Head(conns[k].inbox[side])
         w1 == [Cur EXCEPT !.conns[k].inbox[side] = Tail(@)]
     IN Commit(IF w1.isHost[p] THEN handleHostMessage(w1, p, msg)
               ELSE handleGuestMessage(w1, p, msg),
               Did("data", p))

\* conn.on('close'): this end closes because the other end has closed or because the
\* link is lost; PeerJS runs the listener only on an end that was open
ConnClosed(k, side) ==
  /\ \/ /\ conns[k].st[side] \in {"dialing", "pending", "open"}
        /\ conns[k].st[Other(side)] = "closed"
     \/ conns[k].st[side] = "open"
  /\ Commit(EndClosed(Cur, EndOwner(k, side), k, side), Did("closed", EndOwner(k, side)))

(***************************************************************************)
(* Timer callbacks.                                                        *)
(***************************************************************************)
Faces == 1 .. DieSides
SomeFaces == 1 .. MaxFace

\* setTimeout(() => this.runGameLoop(), ...): the start timer and the tie re-roll timer
TimerRunGameLoop(p, faces) ==
  \E i \in DOMAIN timers[p] :
    /\ Due(p, i) /\ timers[p][i].kind \in {T_START, T_REROLL}
    /\ LET w1 == DropTimer(Cur, p, i)
       IN IF ~isHost[p] \/ Len(players[p]) < 2
          THEN Commit(runGameLoop(w1, p, 1, 1), Ran("runGameLoop", p, timers[p][i]))
          ELSE \E a \in faces, b \in faces :
                 Commit(runGameLoop(w1, p, a, b),
                        [Ran("round", p, timers[p][i]) EXCEPT !.a = a, !.b = b])

\* the reveal timer of a decisive round
TimerMatchEnd(p) ==
  \E i \in DOMAIN timers[p] :
    /\ Due(p, i) /\ timers[p][i].kind = T_REVEAL
    /\ LET w1 == DropTimer(Cur, p, i)
           endMsg == [winnerId |-> timers[p][i].winnerId]
           w2 == send(w1, p, [type |-> MATCH_END, payload |-> endMsg])
       IN Commit(trigger(w2, p, MATCH_END, endMsg), Ran("matchEnd", p, timers[p][i]))

\* the graceful close after a rejected JOIN_REQUEST
TimerRejectClose(p) ==
  \E i \in DOMAIN timers[p] :
    /\ Due(p, i) /\ timers[p][i].kind = T_REJECT
    /\ LET w1 == DropTimer(Cur, p, i)
           w2 == IF w1.conn[p] # 0 THEN connClose(w1, p, w1.conn[p]) ELSE w1
       IN Commit([w2 EXCEPT !.conn[p] = 0], Ran("rejectClose", p, timers[p][i]))

\* the guest's global connection timeout
TimerConnectionTimeout(p) ==
  \E i \in DOMAIN timers[p] :
    /\ Due(p, i) /\ timers[p][i].kind = T_JOIN
    /\ LET w1 == DropTimer(Cur, p, i)
           w2 == trigger(w1, p, CONNECT_ERROR,
                         [message |-> "Connection timed out. Room ID might be wrong or Host offline."])
       IN Commit(disconnect(w2, p), Ran("connectionTimeout", p, timers[p][i]))

\* App.handleDiceResult, the callback that shows the rolls
TimerShowResult(p) ==
  \E i \in DOMAIN timers[p] :
    /\ Due(p, i) /\ timers[p][i].kind = T_UIDICE
    /\ LET w1 == DropTimer(Cur, p, i)
       IN Commit([w1 EXCEPT !.gameState[p].roundWinnerId = timers[p][i].winnerId],
                 Did("showResult", p))

Sides == {"g", "h"}

Next ==
  \/ \E p \in Hosts : Len(peers) < DuelPeers /\ CreateMatch(p)
  \/ \E p \in Procs : Len(peers) < DuelPeers /\ JoinMatch(p)
  \/ \E p \in Procs : LeaveMatch(p)
  \/ \E h \in DOMAIN peers : HostPeerOpen(h)
  \/ \E h \in DOMAIN peers, k \in DOMAIN peers : HostPeerConnection(h, k)
  \/ \E h \in DOMAIN peers : HostPeerError(h)
  \/ \E g \in DOMAIN peers : GuestPeerOpen(g)
  \/ \E k \in DOMAIN peers : GuestConnOpen(k)
  \/ \E g \in DOMAIN peers : GuestPeerError(g)
  \/ \E k \in DOMAIN peers, side \in Sides : ConnData(k, side)
  \/ \E k \in DOMAIN peers, side \in Sides : ConnClosed(k, side)
  \/ \E p \in Procs : TimerRunGameLoop(p, SomeFaces)
  \/ \E p \in Procs : TimerMatchEnd(p)
  \/ \E p \in Procs : TimerRejectClose(p)
  \/ \E p \in Procs : TimerConnectionTimeout(p)
  \/ \E p \in Procs : TimerShowResult(p)

Spec == Init /\ [][Next]_vars

(***************************************************************************)
(* One duel with all six faces of each die: browser 1 creates a room once, *)
(* browser 2 joins it once, nobody leaves by hand.                         *)
(***************************************************************************)
FirstCreate == peers = <<>> /\ CreateMatch(1)
FirstJoin == Len(peers) = 1 /\ JoinMatch(2)

NextDice ==
  \/ FirstCreate
  \/ FirstJoin
  \/ \E h \in DOMAIN peers : HostPeerOpen(h)
  \/ \E h \in DOMAIN peers, k \in DOMAIN peers : HostPeerConnection(h, k)
  \/ \E g \in DOMAIN peers : GuestPeerOpen(g)
  \/ \E k \in DOMAIN peers : GuestConnOpen(k)
  \/ \E k \in DOMAIN peers, side \in Sides : ConnData(k, side)
  \/ \E k \in DOMAIN peers, side \in Sides : ConnClosed(k, side)
  \/ \E p \in Procs : TimerRunGameLoop(p, Faces)
  \/ \E p \in Procs : TimerMatchEnd(p)
  \/ \E p \in Procs : TimerRejectClose(p)
  \/ \E p \in Procs : TimerShowResult(p)

SpecDice == Init /\ [][NextDice]_vars

(***************************************************************************)
(* One room and two guests: browser 1 creates a room once, browsers 2 and  *)
(* 3 each dial it once, nobody leaves by hand, no endpoint fails.           *)
(* Both dice show 1 in every round, so the loop keeps re-rolling.          *)
(***************************************************************************)
Guests == Browsers \ Hosts
JoinOnce(p) == (\A k \in DOMAIN peers : peers[k].owner # p) /\ JoinMatch(p)

NextRoom ==
  \/ FirstCreate
  \/ \E p \in Guests : JoinOnce(p)
  \/ \E h \in DOMAIN peers : HostPeerOpen(h)
  \/ \E h \in DOMAIN peers, k \in DOMAIN peers : HostPeerConnection(h, k)
  \/ \E g \in DOMAIN peers : GuestPeerOpen(g)
  \/ \E k \in DOMAIN peers : GuestConnOpen(k)
  \/ \E k \in DOMAIN peers, side \in Sides : ConnData(k, side)
  \/ \E k \in DOMAIN peers, side \in Sides : ConnClosed(k, side)
  \/ \E p \in Browsers : TimerRunGameLoop(p, 1 .. 1)
  \/ \E p \in Browsers : TimerRejectClose(p)
  \/ \E p \in Browsers : TimerConnectionTimeout(p)
  \/ \E p \in Browsers : TimerShowResult(p)

SpecRoom == Init /\ [][NextRoom]_vars

\* A browser that hosted one match and then joins another: browser 1 hosts
\* browser 2 and leaves (Header's leave button), browser 3 opens a room, and
\* browser 1 joins it from the lobby.
NextSwitch ==
  \/ FirstCreate
  \/ FirstJoin
  \/ LeaveMatch(1)
  \/ Len(peers) = 2 /\ peer[1] = 0 /\ CreateMatch(3)
  \/ Len(peers) = 3 /\ JoinMatch(1)
  \/ \E h \in DOMAIN peers : HostPeerOpen(h)
  \/ \E h \in DOMAIN peers, k \in DOMAIN peers : HostPeerConnection(h, k)
  \/ \E g \in DOMAIN peers : GuestPeerOpen(g)
  \/ \E k \in DOMAIN peers : GuestConnOpen(k)
  \/ \E k \in DOMAIN peers, side \in Sides : ConnData(k, side)
  \/ \E p \in Browsers : TimerRunGameLoop(p, SomeFaces)
  \/ \E p \in Browsers : TimerMatchEnd(p)
  \/ \E p \in Browsers : TimerShowResult(p)

SpecSwitch == Init /\ [][NextSwitch]_vars

\* The handshake of one room over every code createHost can draw: browser 1
\* creates the room, browser 2 types its code and joins.
CreateAnyCode(p) ==
  /\ peers = <<>> /\ view[p] = "LOBBY" /\ ~isJoining[p]
  /\ \E shortCode \in AllCodes : Commit(createHost(Cur, p, shortCode), Did("createHost", p))

JoinTypedCode(p) ==
  /\ Len(peers) = 1 /\ view[p] = "LOBBY" /\ ~isJoining[p]
  /\ \E roomId \in Typed(peers[1].shortCode) :
       Commit(joinHost([Cur EXCEPT !.isJoining[p] = TRUE], p, roomId), Did("joinHost", p))

NextCodec ==
  \/ CreateAnyCode(1)
  \/ JoinTypedCode(2)
  \/ \E h \in DOMAIN peers : HostPeerOpen(h)
  \/ \E h \in DOMAIN peers, k \in DOMAIN peers : HostPeerConnection(h, k)
  \/ \E g \in DOMAIN peers : GuestPeerOpen(g)
  \/ \E k \in DOMAIN peers : GuestConnOpen(k)
  \/ \E k \in DOMAIN peers, side \in Sides : ConnData(k, side)

SpecCodec == Init /\ [][NextCodec]_vars

\* Protocol skew: the remote end of an open connection sends a message whose
\* type is none of JOIN_REQUEST, MATCH_START, DICE_RESULT, MATCH_END and
\* CONNECT_ERROR.  "match_created" is an event name of the local bus that no
\* peer sends; "ping" is a name nobody listens to.
UnknownTypes == {MATCH_CREATED, "ping"}
UnknownMessage(type) == [type |-> type, payload |-> [roomId |-> <<"0">>]]

\* conn.on('data') for such a message
UnknownData(k, side) ==
  /\ conns[k].st[side] = "open" /\ conns[k].handlers[side]
  /\ conns[k].hp # 0
  /\ \E type \in UnknownTypes :
       LET p == EndOwner(k, side)
           msg == UnknownMessage(type)
       IN Commit(IF isHost[p] THEN handleHostMessage(Cur, p, msg)
                 ELSE handleGuestMessage(Cur, p, msg),
                 [Did("unknown", p) EXCEPT !.a = IF type = "ping" THEN 1 ELSE 2])

NextSkew ==
  \/ FirstCreate
  \/ FirstJoin
  \/ \E h \in DOMAIN peers : HostPeerOpen(h)
  \/ \E h \in DOMAIN peers, k \in DOMAIN peers : HostPeerConnection(h, k)
  \/ \E g \in DOMAIN peers : GuestPeerOpen(g)
  \/ \E k \in DOMAIN peers : GuestConnOpen(k)
  \/ \E k \in DOMAIN peers, side \in Sides : ConnData(k, side)
  \/ \E k \in DOMAIN peers, side \in Sides : UnknownData(k, side)
  \/ \E p \in Procs : TimerRunGameLoop(p, SomeFaces)
  \/ \E p \in Procs : TimerMatchEnd(p)
  \/ \E p \in Procs : TimerShowResult(p)

SpecSkew == Init /\ [][NextSkew]_vars

(***************************************************************************)
(* The user store (localStorage dc_users_db_v1) and the identity of one    *)
(* browser.  The store holds any set of users; a record written by a       *)
(* version without win counts has no wins field (handleLogin migrates it   *)
(* at the next login).  The constructor restores the identity from         *)
(* sessionStorage, so the browser starts logged out or as any user.        *)
(***************************************************************************)
StoreNames == {"ann", "bob", "cy"}
NameOrder == <<"ann", "bob", "cy">>
NoWins == -1
UserRecord(p, name, n) ==
  IF n = NoWins THEN [id |-> NewUserId(p, name), password |-> "pw"]
  ELSE [id |-> NewUserId(p, name), password |-> "pw", wins |-> n]
Stores(p) ==
  UNION {{[u \in S |-> UserRecord(p, u, f[u])] : f \in [S -> {NoWins} \cup (0 .. MaxStoredWins)]} :
           S \in SUBSET StoreNames}
EmptyStore == [u \in {} |-> UserRecord(0, u, 0)]

\* Object.keys(db): the names in the store, in one fixed order
KeysOf(store) == SelectSeq(NameOrder, LAMBDA u : u \in DOMAIN store)

\* Array.prototype.sort((a, b) => b.wins - a.wins), which is stable
RECURSIVE InsertByWins(_, _)
InsertByWins(sorted, e) ==
  IF sorted = <<>> THEN <<e>>
  ELSE IF Head(sorted).wins >= e.wins THEN <<Head(sorted)>> \o InsertByWins(Tail(sorted), e)
  ELSE <<e>> \o sorted
RECURSIVE SortByWins(_)
SortByWins(seq) ==
  IF seq = <<>> THEN <<>>
  ELSE InsertByWins(SortByWins(SubSeq(seq, 1, Len(seq) - 1)), seq[Len(seq)])

handleGetLeaderboardUnsorted(w, p) ==
  LET keys == KeysOf(w.db[p])
  IN trigger(w, p, LEADERBOARD_DATA,
             [i \in DOMAIN keys |-> [name |-> keys[i], wins |-> WinsOf(w.db[p][keys[i]])]])

handleGetLeaderboard(w, p) ==
  LET keys == KeysOf(w.db[p])
      leaderboard == [i \in DOMAIN keys |-> [name |-> keys[i], wins |-> WinsOf(w.db[p][keys[i]])]]
  IN trigger(w, p, LEADERBOARD_DATA, SortByWins(leaderboard))

\* handleLogout of the service, then App.handleLogout (Lobby's onLogout)
handleLogout(w, p) ==
  LET w1 == disconnect([w EXCEPT !.currentUser[p] = NoUser, !.session[p] = NoUser], p)
  IN [w1 EXCEPT !.view[p] = "LOGIN", !.gameState[p] = INITIAL_GAME_STATE]

\* private finalizeLogin()
finalizeLogin(w, p) ==
  trigger([w EXCEPT !.session[p] = w.currentUser[p]], p, LOGIN_SUCCESS, [user |-> w.currentUser[p]])

\* Names every JavaScript object answers to without holding them: db is the plain
\* object JSON.parse returns, and db[name] also finds what Object.prototype holds
\* (constructor, toString, valueOf, ...).  One of them stands for all.
ObjectPrototype == {"constructor"}
\* db[username], where NoRecord stands for undefined and Inherited for a member of Object.prototype
NoRecord == [none |-> TRUE]
Inherited == [inherited |-> TRUE]
Lookup(store, username) ==
  IF username \in DOMAIN store THEN store[username]
  ELSE IF username \in ObjectPrototype THEN Inherited
  ELSE NoRecord
PasswordIsAny(userRecord, password) == "password" \in DOMAIN userRecord

\* userRecord.password === password
PasswordIs(userRecord, password) ==
  "password" \in DOMAIN userRecord /\ userRecord.password = password

\* private handleLogin(payload); the new id (Date.now and Math.random) is one per browser and name
handleLogin(w, p, username, password) ==
  IF username = "" \/ password = ""
  THEN trigger(w, p, LOGIN_FAIL, [message |-> "Username and password required"])
  ELSE IF Lookup(w.db[p], username) # NoRecord
  THEN LET userRecord == Lookup(w.db[p], username)
       IN IF PasswordIs(userRecord, password)
          THEN LET w1 == [w EXCEPT !.currentUser[p] = [id |-> userRecord.id, name |-> username]]
                   w2 == IF "wins" \notin DOMAIN userRecord
                         THEN [w1 EXCEPT !.db[p][username] = WithWins(@, 0)]
                         ELSE w1
               IN finalizeLogin(w2, p)
          ELSE trigger(w, p, LOGIN_FAIL, [message |-> "Invalid password"])
  ELSE LET newId == NewUserId(p, username)
           record == [password |-> password, id |-> newId, wins |-> 0]
           w1 == [w EXCEPT !.db[p] = [u \in DOMAIN @ \cup {username} |->
                                        IF u = username THEN record ELSE @[u]],
                           !.currentUser[p] = [id |-> newId, name |-> username]]
       IN finalizeLogin(w1, p)

Passwords == {"", "pw", "nope"}

\* the ids a MATCH_END or a round can name as winner, and no winner
WinnerIds == <<Null, NewUserId(1, "ann"), NewUserId(1, "bob"), NewUserId(1, "cy"), NewUserId(2, "bob")>>

InitStore ==
  /\ \E store \in Stores(1) :
       /\ db = [p \in Browsers |-> IF p = 1 THEN store ELSE EmptyStore]
       /\ \E u \in {NoUser} \cup {UserOf(1, n) : n \in StoreNames} :
            currentUser = [p \in Browsers |-> IF p = 1 THEN u ELSE NoUser]
  /\ view = [p \in Browsers |-> IF currentUser[p] = NoUser THEN "LOGIN" ELSE "LOBBY"]
  /\ isHost = [p \in Browsers |-> FALSE]
  /\ peer = [p \in Browsers |-> 0]
  /\ conn = [p \in Browsers |-> 0]
  /\ peerId = [p \in Browsers |-> <<>>]
  /\ players = [p \in Browsers |-> <<>>]
  /\ gameLoopTimeout = [p \in Browsers |-> 0]
  /\ connectionTimeout = [p \in Browsers |-> 0]
  /\ peers = <<>>
  /\ conns = [k \in 1 .. MaxPeers |-> NoConn]
  /\ timers = [p \in Browsers |-> <<>>]
  /\ gameState = [p \in Browsers |-> INITIAL_GAME_STATE]
  /\ isJoining = [p \in Browsers |-> FALSE]
  /\ listeners = [p \in Browsers |-> AppListeners]
  /\ session = currentUser
  /\ out = <<>>
  /\ act = Did("init", 0)
  /\ decided = [p \in Browsers |-> FALSE]
  /\ decisiveRounds = 0

\* socketService.emit(GET_LEADERBOARD)
GetLeaderboard(p) == Commit(handleGetLeaderboard(Cur, p), Did("getLeaderboard", p))

\* checkAndRecordWin(winnerId), as runGameLoop and handleGuestMessage call it
RecordWin(p) ==
  \E i \in DOMAIN WinnerIds :
    /\ \A u \in DOMAIN db[p] : WinsOf(db[p][u]) < MaxStoredWins
    /\ Commit(checkAndRecordWin(Cur, p, WinnerIds[i]), [Did("recordWin", p) EXCEPT !.a = i])

\* socketService.emit(CREATE_MATCH) and emit(JOIN_MATCH, {roomId})
EmitCreate(p) ==
  /\ Len(peers) < StorePeers
  /\ \E shortCode \in ShortCodes : Commit(createHost(Cur, p, shortCode), Did("createHost", p))
EmitJoin(p) ==
  /\ Len(peers) < StorePeers
  /\ \E roomId \in ShortCodes : Commit(joinHost(Cur, p, roomId), Did("joinHost", p))

\* socketService.emit(LOGOUT) from the lobby
Logout(p) == view[p] = "LOBBY" /\ Commit(handleLogout(Cur, p), Did("logout", p))

\* socketService.emit(LOGIN_REQUEST, {username, password}); out starts with the request
Usernames == StoreNames \cup ObjectPrototype \cup {""}
Login(p) ==
  \E username \in Usernames, password \in Passwords :
    LET request == [kind |-> "login", p |-> p, username |-> username, password |-> password]
    IN Commit(handleLogin([Cur EXCEPT !.out = <<request>>], p, username, password),
              Did("login", p))

NextStore ==
  \/ GetLeaderboard(1)
  \/ RecordWin(1)
  \/ EmitCreate(1)
  \/ EmitJoin(1)
  \/ Logout(1)
  \/ Login(1)

SpecStore == InitStore /\ [][NextStore]_vars

(***************************************************************************)
(* The event bus by itself: on, off and trigger over two event names and   *)
(* three callbacks.  cbA and cbB do nothing the bus can see; cbOffB is a   *)
(* listener that unsubscribes cbB from the event it is called for, as a    *)
(* component's cleanup does.  out records every call, on and off in order. *)
(***************************************************************************)
BusEvents == {MATCH_END, ERROR}
Callbacks == {"cbA", "cbB", "cbOffB"}
NoListeners == [e \in {} |-> <<>>]

\* public on(event, callback)
on(w, p, event, callback) ==
  LET l == w.listeners[p]
      l1 == [e \in DOMAIN l \cup {event} |-> IF e \in DOMAIN l THEN l[e] ELSE <<>>]
  IN [w EXCEPT !.listeners[p] = [l1 EXCEPT ![event] = Append(@, callback)],
               !.out = Append(@, [kind |-> "on", p |-> p, type |-> event, cb |-> callback])]

\* public off(event, callback)
off(w, p, event, callback) ==
  LET w1 == [w EXCEPT !.out = Append(@, [kind |-> "off", p |-> p, type |-> event, cb |-> callback])]
  IN IF event \notin DOMAIN w.listeners[p] THEN w1
     ELSE [w1 EXCEPT !.listeners[p][event] = SelectSeq(@, LAMBDA cb : cb # callback)]

\* cb(data): the body of a callback
call(w, p, event, callback) ==
  LET w1 == [w EXCEPT !.out = Append(@, [kind |-> "call", p |-> p, type |-> event, cb |-> callback])]
  IN IF callback = "cbOffB" THEN off(w1, p, event, "cbB") ELSE w1

\* Array.prototype.forEach over the array that listeners[event] held when it started
RECURSIVE forEach(_, _, _, _)
forEach(w, p, event, array) ==
  IF array = <<>> THEN w
  ELSE forEach(call(w, p, event, Head(array)), p, event, Tail(array))

\* private trigger(event, data), for any registered callbacks
triggerBus(w, p, event) ==
  IF event \in DOMAIN w.listeners[p] THEN forEach(w, p, event, w.listeners[p][event]) ELSE w

InitBus ==
  /\ listeners = [p \in Browsers |-> NoListeners]
  /\ session = [p \in Browsers |-> NoUser]
  /\ currentUser = [p \in Browsers |-> NoUser]
  /\ db = [p \in Browsers |-> EmptyStore]
  /\ view = [p \in Browsers |-> "LOGIN"]
  /\ isHost = [p \in Browsers |-> FALSE]
  /\ peer = [p \in Browsers |-> 0]
  /\ conn = [p \in Browsers |-> 0]
  /\ peerId = [p \in Browsers |-> <<>>]
  /\ players = [p \in Browsers |-> <<>>]
  /\ gameLoopTimeout = [p \in Browsers |-> 0]
  /\ connectionTimeout = [p \in Browsers |-> 0]
  /\ peers = <<>>
  /\ conns = [k \in 1 .. MaxPeers |-> NoConn]
  /\ timers = [p \in Browsers |-> <<>>]
  /\ gameState = [p \in Browsers |-> INITIAL_GAME_STATE]
  /\ isJoining = [p \in Browsers |-> FALSE]
  /\ out = <<>>
  /\ act = Did("init", 0)
  /\ decided = [p \in Browsers |-> FALSE]
  /\ decisiveRounds = 0

Registered(p, event) == IF event \in DOMAIN listeners[p] THEN listeners[p][event] ELSE <<>>

BusOn(p) ==
  \E event \in BusEvents, callback \in Callbacks :
    /\ Len(Registered(p, event)) < MaxListeners
    /\ Commit(on(Cur, p, event, callback), Did("on", p))
BusOff(p) ==
  \E event \in BusEvents, callback \in Callbacks :
    Commit(off(Cur, p, event, callback), Did("off", p))
BusTrigger(p) ==
  \E event \in BusEvents : Commit(triggerBus(Cur, p, event), Did("trigger", p))

NextBus ==
  \/ BusOn(1)
  \/ BusOff(1)
  \/ BusTrigger(1)

SpecBus == InitBus /\ [][NextBus]_vars

(***************************************************************************)
(* A rejected guest and a later one: browser 1 (ann) opens a room, browser *)
(* 2, logged in as ann too, joins it and is rejected for its name; once    *)
(* the host's 500 ms close has run, browser 3 (bob) joins with the same    *)
(* room code.                                                              *)
(***************************************************************************)
RejectNames == <<"ann", "ann", "bob">>

InitReject ==
  /\ currentUser = [p \in Browsers |-> UserOf(p, RejectNames[p])]
  /\ db = [p \in Browsers |->
             [u \in {RejectNames[p]} |-> [id |-> NewUserId(p, u), password |-> "pw", wins |-> 0]]]
  /\ isHost = [p \in Browsers |-> FALSE]
  /\ peer = [p \in Browsers |-> 0]
  /\ conn = [p \in Browsers |-> 0]
  /\ peerId = [p \in Browsers |-> <<>>]
  /\ players = [p \in Browsers |-> <<>>]
  /\ gameLoopTimeout = [p \in Browsers |-> 0]
  /\ connectionTimeout = [p \in Browsers |-> 0]
  /\ peers = <<>>
  /\ conns = [k \in 1 .. MaxPeers |-> NoConn]
  /\ timers = [p \in Browsers |-> <<>>]
  /\ gameState = [p \in Browsers |-> INITIAL_GAME_STATE]
  /\ view = [p \in Browsers |-> "LOBBY"]
  /\ isJoining = [p \in Browsers |-> FALSE]
  /\ listeners = [p \in Browsers |-> AppListeners]
  /\ session = currentUser
  /\ out = <<>>
  /\ act = Did("init", 0)
  /\ decided = [p \in Browsers |-> FALSE]
  /\ decisiveRounds = 0

\* the host has answered a JOIN_REQUEST with CONNECT_ERROR and its close timer has run
Rejected ==
  /\ \A i \in DOMAIN timers[1] : timers[1][i].kind # T_REJECT
  /\ \E k \in DOMAIN peers : CONNECT_ERROR \in conns[k].sent /\ conns[k].st.h = "closed"

JoinLater == Rejected /\ JoinOnce(3)

NextReject ==
  \/ FirstCreate
  \/ FirstJoin
  \/ JoinLater
  \/ \E h \in DOMAIN peers : HostPeerOpen(h)
  \/ \E h \in DOMAIN peers, k \in DOMAIN peers : HostPeerConnection(h, k)
  \/ \E g \in DOMAIN peers : GuestPeerOpen(g)
  \/ \E k \in DOMAIN peers : GuestConnOpen(k)
  \/ \E k \in DOMAIN peers, side \in Sides : ConnData(k, side)
  \/ \E k \in DOMAIN peers, side \in Sides : ConnClosed(k, side)
  \/ \E p \in Browsers : TimerRunGameLoop(p, SomeFaces)
  \/ \E p \in Browsers : TimerMatchEnd(p)
  \/ \E p \in Browsers : TimerRejectClose(p)
  \/ \E p \in Browsers : TimerConnectionTimeout(p)
  \/ \E p \in Browsers : TimerShowResult(p)

SpecReject == InitReject /\ [][NextReject]_vars

(***************************************************************************)
(* One duel with leaving and logging out: browser 1 creates a room once,   *)
(* browser 2 joins it once, either may leave the match and, back in the    *)
(* lobby, log out; a logged-out browser's service is still asked to create *)
(* and to join.                                                            *)
(***************************************************************************)
CreateLoggedOut(p) ==
  /\ currentUser[p] = NoUser
  /\ \E shortCode \in ShortCodes : Commit(createHost(Cur, p, shortCode), Did("createHost", p))
JoinLoggedOut(p) ==
  /\ currentUser[p] = NoUser
  /\ \E roomId \in ShortCodes : Commit(joinHost(Cur, p, roomId), Did("joinHost", p))

NextLogout ==
  \/ FirstCreate
  \/ FirstJoin
  \/ \E p \in Procs : LeaveMatch(p)
  \/ \E p \in Procs : Logout(p)
  \/ \E p \in Procs : CreateLoggedOut(p)
  \/ \E p \in Procs : JoinLoggedOut(p)
  \/ \E h \in DOMAIN peers : HostPeerOpen(h)
  \/ \E h \in DOMAIN peers, k \in DOMAIN peers : HostPeerConnection(h, k)
  \/ \E g \in DOMAIN peers : GuestPeerOpen(g)
  \/ \E k \in DOMAIN peers : GuestConnOpen(k)
  \/ \E k \in DOMAIN peers, side \in Sides : ConnData(k, side)
  \/ \E k \in DOMAIN peers, side \in Sides : ConnClosed(k, side)
  \/ \E p \in Procs : TimerRunGameLoop(p, SomeFaces)
  \/ \E p \in Procs : TimerMatchEnd(p)
  \/ \E p \in Procs : TimerRejectClose(p)
  \/ \E p \in Procs : TimerConnectionTimeout(p)
  \/ \E p \in Procs : TimerShowResult(p)

SpecLogout == Init /\ [][NextLogout]_vars

(***************************************************************************)
(* Reading the record of the last step.                                    *)
(***************************************************************************)
Events(o, p, type) ==
  {o[i].data : i \in {j \in DOMAIN o : o[j].kind = "event" /\ o[j].p = p /\ o[j].type = type}}
Sends(o, p, type) ==
  {o[i].msg.payload : i \in {j \in DOMAIN o : o[j].kind = "send" /\ o[j].p = p /\ o[j].msg.type = type}}
MatchEndNull(o, p) == \E d \in Events(o, p, MATCH_END) : d.winnerId = Null
CountKind(ts, kinds) == Cardinality({i \in DOMAIN ts : ts[i].kind \in kinds})

(***************************************************************************)
(* C1.  For every pair of values (a, b) the two dice show in a round       *)
(* between host and guest, the result that is sent and raised has          *)
(* newRound true iff a = b iff winnerId is null; if a > b the winner is    *)
(* the host, if b > a the winner is the guest, never the lower roller.     *)
(***************************************************************************)
C1_RoundOutcome ==
  act.name = "round" =>
    LET host == currentUser[act.p].id
        guest == currentUser[3 - act.p].id
        results == Events(out, act.p, DICE_RESULT) \cup Sends(out, act.p, DICE_RESULT)
    IN /\ Events(out, act.p, DICE_RESULT) # {}
       /\ \A r \in results :
            /\ r.newRound <=> act.a = act.b
            /\ act.a = act.b <=> r.winnerId = Null
            /\ act.a > act.b => r.winnerId = host
            /\ act.b > act.a => r.winnerId = guest
            /\ r.rolls[host] = act.a /\ r.rolls[guest] = act.b

C1_Witness ==
  /\ act.name = "round" /\ act.a = 3 /\ act.b = 6
  /\ \E r \in Sends(out, act.p, DICE_RESULT) : r.winnerId = currentUser[3 - act.p].id

(***************************************************************************)
(* C2.  Once the UI state of a browser is COMPLETE with a winner, a step   *)
(* that raises MATCH_END with a null winner there (the connection closed,  *)
(* by the peer or by the local teardown) leaves status and roundWinnerId   *)
(* as they were; when the step is the user's own leave, this is so up to   *)
(* the reset that follows the teardown.                                    *)
(***************************************************************************)
HasWinner(p) == gameState[p].status = COMPLETE /\ gameState[p].roundWinnerId # Null

C2_CompleteKeepsWinner ==
  [][\A p \in Procs :
       HasWinner(p) /\ MatchEndNull(out', p) =>
         IF act'.name = "leave" /\ act'.p = p
         THEN /\ MatchEndNull(disconnect(Cur, p).out, p)
              /\ disconnect(Cur, p).gameState[p] = gameState[p]
         ELSE /\ gameState'[p].status = COMPLETE
              /\ gameState'[p].roundWinnerId = gameState[p].roundWinnerId]_vars

\* the guest sees the winner, then its connection closes: the winner stays
C2_Witness ==
  /\ act.name = "closed" /\ ~isHost[act.p]
  /\ MatchEndNull(out, act.p)
  /\ HasWinner(act.p)

(***************************************************************************)
(* C3.  While a browser stays in one session (it shows the game room and   *)
(* the user has not left), a phase that is COMPLETE stays COMPLETE.        *)
(***************************************************************************)
C3_PhaseMonotonic ==
  [][\A p \in Procs :
       (/\ gameState[p].status = COMPLETE /\ view[p] = "GAME"
        /\ ~(act'.name = "leave" /\ act'.p = p))
       => gameState'[p].status = COMPLETE]_vars

(***************************************************************************)
(* C4.  From every reachable state disconnect() ends with conn = null,     *)
(* peer = null and players = [], and a second call right after it changes  *)
(* nothing: it closes no connection, destroys no endpoint, raises nothing. *)
(***************************************************************************)
C4_DisconnectIdempotent ==
  \A p \in Procs :
    LET w1 == disconnect(Cur, p)
        once == [w1 EXCEPT !.out = <<>>]
        w2 == disconnect(once, p)
    IN /\ w1.ok
       /\ w1.conn[p] = 0 /\ w1.peer[p] = 0 /\ w1.players[p] = <<>>
       /\ w2 = once

\* a leave in the middle of a match: the connection is closed, the endpoint destroyed
C4_Witness ==
  /\ act.name = "leave"
  /\ \E i \in DOMAIN out : out[i].kind = "close" /\ out[i].p = act.p
  /\ \E i \in DOMAIN out : out[i].kind = "destroy" /\ out[i].p = act.p
  /\ MatchEndNull(out, act.p)
  /\ conn[act.p] = 0 /\ peer[act.p] = 0 /\ players[act.p] = <<>>

(***************************************************************************)
(* C5.  A timer callback that was scheduled before disconnect() ran (a     *)
(* timer of the torn-down session) does nothing when its time comes: it    *)
(* raises no event, sends no message and closes no connection.             *)
(***************************************************************************)
C5_NoDeadTimerFires == act.dead => out = <<>>

(***************************************************************************)
(* C6.  When the bound connection of a browser whose match is ACTIVE goes  *)
(* from open to closed, that browser raises MATCH_END with a null winner,  *)
(* on the host side and on the guest side alike.                           *)
(***************************************************************************)
ConnJustClosed(p) ==
  /\ ConnOpen(Cur, p, conn[p])
  /\ conns'[conn[p]].st[SideOf(Cur, p, conn[p])] = "closed"

C6_CloseWhileActive ==
  [][\A p \in Procs :
       gameState[p].status = ACTIVE /\ ConnJustClosed(p) => MatchEndNull(out', p)]_vars

\* the link is lost before any decisive round: both sides end with no winner
C6_Witness ==
  /\ act.name = "closed" /\ isHost[act.p]
  /\ MatchEndNull(out, act.p)
  /\ decisiveRounds = 0
  /\ \A p \in Procs : /\ gameState[p].status = COMPLETE
                      /\ gameState[p].roundWinnerId = Null
                      /\ Len(gameState[p].players) = 2

(***************************************************************************)
(* C7.  After a decisive round the host's loop halts: no further round is  *)
(* generated for the same pair of players.                                 *)
(***************************************************************************)
C7_HaltsAfterDecisive == [][act'.name = "round" => ~decided[act'.p]]_vars

(***************************************************************************)
(* C8.  On a tied round the host sends and raises a result with a null     *)
(* winner and newRound set, sends and raises no MATCH_END, schedules no    *)
(* reveal, and schedules exactly one re-roll: the timer that ran the round *)
(* is replaced by one re-roll timer, whose id gameLoopTimeout holds.       *)
(***************************************************************************)
LoopTimers == {T_START, T_REROLL}

C8_TieRerolls ==
  [][act'.name = "round" /\ act'.a = act'.b =>
       LET p == act'.p
           results == Events(out', p, DICE_RESULT) \cup Sends(out', p, DICE_RESULT)
       IN /\ Events(out', p, DICE_RESULT) # {}
          /\ \A r \in results : r.winnerId = Null /\ r.newRound
          /\ Events(out', p, MATCH_END) = {} /\ Sends(out', p, MATCH_END) = {}
          /\ CountKind(timers'[p], {T_REVEAL}) = CountKind(timers[p], {T_REVEAL})
          /\ CountKind(timers'[p], LoopTimers) = CountKind(timers[p], LoopTimers)
          /\ timers'[p][Len(timers'[p])].kind = T_REROLL
          /\ timers'[p][Len(timers'[p])].held
          /\ gameLoopTimeout'[p] = 1
          /\ db' = db /\ gameState'[p].status = gameState[p].status]_vars

\* a tie on (4,4) reached the guest, and the host waits for the re-roll
C8_Witness ==
  /\ act.name = "round" /\ act.a = 4 /\ act.b = 4
  /\ \E r \in Sends(out, act.p, DICE_RESULT) : r.winnerId = Null /\ r.newRound
  /\ CountKind(timers[act.p], {T_REROLL}) = 1
  /\ gameState[act.p].status = ACTIVE

(***************************************************************************)
(* C9.  Once both browsers have seen the winner of the decisive round and  *)
(* nothing of the match is still under way (no reveal timer pending, no    *)
(* MATCH_END in flight), the wins recorded by the two browsers together    *)
(* are exactly the decisive rounds that were played, whatever happened to  *)
(* the link after the round.                                               *)
(***************************************************************************)
RECURSIVE SumWins(_, _)
SumWins(rec, names) ==
  IF names = {} THEN 0
  ELSE LET n == CHOOSE x \in names : TRUE
       IN rec[n].wins + SumWins(rec, names \ {n})

TotalWins == SumWins(db[1], DOMAIN db[1]) + SumWins(db[2], DOMAIN db[2])

Settled ==
  /\ \A p \in Procs : CountKind(timers[p], {T_REVEAL}) = 0
  /\ \A k \in DOMAIN conns, side \in Sides :
       \A i \in DOMAIN conns[k].inbox[side] : conns[k].inbox[side][i].type # MATCH_END

BothSawWinner == \A p \in Procs : gameState[p].roundWinnerId # Null

C9_WinRecordedOnce == Settled /\ BothSawWinner => TotalWins = decisiveRounds

(***************************************************************************)
(* C10.  A JOIN_REQUEST whose name equals the host's own is rejected: the  *)
(* host sends CONNECT_ERROR to the guest and schedules the close, sends    *)
(* and raises no MATCH_START, leaves players as it is and starts no game   *)
(* loop; the scheduled close then closes the connection.  When the two     *)
(* users have the same name, no match between them ever starts.            *)
(***************************************************************************)
\* the host end of connection k is about to handle a JOIN_REQUEST with the host's name
RejectDue(k) ==
  /\ conns[k].st.h = "open" /\ conns[k].handlers.h
  /\ conns[k].inbox.h # <<>>
  /\ isHost[EndOwner(k, "h")]
  /\ Head(conns[k].inbox.h).type = JOIN_REQUEST
  /\ Head(conns[k].inbox.h).payload.name = currentUser[EndOwner(k, "h")].name

C10_RejectStep ==
  \A k \in DOMAIN peers :
    (/\ RejectDue(k)
     /\ act'.name = "data" /\ act'.p = EndOwner(k, "h")
     /\ conns'[k].inbox.h = Tail(conns[k].inbox.h))
    => LET p == EndOwner(k, "h")
       IN /\ conn[p] = k =>
               \E i \in DOMAIN out' : /\ out'[i].kind = "send" /\ out'[i].conn = k
                                      /\ out'[i].msg.type = CONNECT_ERROR
          /\ Sends(out', p, MATCH_START) = {} /\ Events(out', p, MATCH_START) = {}
          /\ players'[p] = players[p]
          /\ gameState'[p] = gameState[p]
          /\ CountKind(timers'[p], LoopTimers) = CountKind(timers[p], LoopTimers)
          /\ CountKind(timers'[p], {T_REJECT}) = CountKind(timers[p], {T_REJECT}) + 1

C10_CloseStep ==
  \A p \in Procs :
    act'.name = "rejectClose" /\ act'.p = p /\ conn[p] # 0 =>
      /\ \E i \in DOMAIN out' : out'[i].kind = "close" /\ out'[i].conn = conn[p]
      /\ conns'[conn[p]].st[SideOf(Cur, p, conn[p])] = "closed"
      /\ conn'[p] = 0

C10_NoMatch ==
  currentUser[1].name = currentUser[2].name =>
    /\ \A k \in DOMAIN conns : MATCH_START \notin conns[k].sent
    /\ \A p \in Procs : /\ gameState[p].status # ACTIVE
                        /\ Len(players[p]) <= 1
                        /\ CountKind(timers[p], LoopTimers) = 0

C10_SameNameRejected == [][C10_RejectStep /\ C10_CloseStep]_vars /\ []C10_NoMatch

\* the rejection was sent over the connection that the close timer has now closed
C10_Witness ==
  /\ act.name = "rejectClose" /\ ~act.dead
  /\ currentUser[1].name = currentUser[2].name
  /\ \E i \in DOMAIN out :
       /\ out[i].kind = "close"
       /\ conns[out[i].conn].sent = {CONNECT_ERROR}
       /\ conns[out[i].conn].st.h = "closed"
  /\ conn[act.p] = 0 /\ Len(players[act.p]) = 1

(***************************************************************************)
(* C11.  Once the host has bound an inbound connection that it has not     *)
(* seen close, a further inbound connection is closed at once, gets no     *)
(* message handlers, and changes neither the bound connection nor the      *)
(* players list nor the timers of the game loop.                           *)
(***************************************************************************)
\* host browser p holds a connection that has not closed on its end
Bound(p) == conn[p] # 0 /\ isHost[p] /\ conns[conn[p]].st.h \in {"pending", "open"}

C11_SecondConnectionRefused ==
  [][\A k \in DOMAIN peers :
       (/\ act'.name = "hostConnection" /\ Bound(act'.p)
        /\ conns[k].st.h = "none" /\ conns'[k].st.h # "none")
       => /\ conns'[k].st.h = "closed"
          /\ ~conns'[k].handlers.h
          /\ conn'[act'.p] = conn[act'.p]
          /\ players' = players
          /\ timers' = timers /\ gameLoopTimeout' = gameLoopTimeout]_vars

(***************************************************************************)
(* C12.  A dial that fails is followed by a fresh connect on the same      *)
(* endpoint: "Room not found" is surfaced to the guest only after more     *)
(* than one connect attempt has been made on its endpoint.                 *)
(***************************************************************************)
RoomNotFound(o, p) ==
  \E d \in Events(o, p, CONNECT_ERROR) : d.message = "Room not found. Check the ID."

C12_RetriesBeforeRoomNotFound ==
  [][\A p \in Procs :
       act'.name = "guestError" /\ act'.p = p /\ RoomNotFound(out', p)
       => peers[peer[p]].dials > 1]_vars

(***************************************************************************)
(* C13.  A host endpoint that cannot open because its id is reserved is    *)
(* answered with a new code and a new endpoint; the failure of the first   *)
(* attempt of a createRoom is not surfaced as an error.  (createHost is    *)
(* called only for a click on "New Match" and constructs one Peer, so      *)
(* every host endpoint here is the first attempt of its createRoom.)       *)
(***************************************************************************)
IdCollision(o, p) ==
  \E d \in Events(o, p, ERROR) : d.message = "ID Collision. Try again."

C13_RetriesOnCollision ==
  [][\A p \in Procs :
       act'.name = "hostError" /\ act'.p = p /\ IdCollision(out', p)
       => Len(peers') > Len(peers)]_vars

(***************************************************************************)
(* C14.  A step that surfaces a terminal error to a browser (an error of   *)
(* its host endpoint or of its guest endpoint, the global join timeout,    *)
(* the rejection for a duplicate name) leaves its service torn down: conn  *)
(* and peer are null, players is empty and no timer of the service is      *)
(* pending.                                                                *)
(***************************************************************************)
TornDown(p) ==
  /\ conn[p] = 0 /\ peer[p] = 0 /\ players[p] = <<>>
  /\ CountKind(timers[p], ServiceTimers) = 0

C14_TornDownAfterError ==
  [][\A p \in Procs :
       (/\ act'.p = p
        /\ \/ act'.name \in {"hostError", "guestError", "connectionTimeout"}
           \/ act'.name = "data" /\ Events(out', p, CONNECT_ERROR) # {})
       => TornDown(p)']_vars

(***************************************************************************)
(* C15.  When a join fails (error of the guest endpoint, global timeout),  *)
(* the teardown comes before the error event reaches the listeners: the    *)
(* endpoint is destroyed first, and nothing is closed or destroyed after   *)
(* the event has been raised.                                              *)
(***************************************************************************)
IsErrorEvent(r, p) == r.kind = "event" /\ r.p = p /\ r.type \in {CONNECT_ERROR, ERROR}
IsTeardown(r, p) == r.kind \in {"close", "destroy"} /\ r.p = p

C15_TeardownBeforeError ==
  [][\A p \in Procs :
       act'.p = p /\ act'.name \in {"guestError", "connectionTimeout"} =>
         \A i \in DOMAIN out' :
           IsErrorEvent(out'[i], p) =>
             /\ \E j \in 1 .. i - 1 : out'[j].kind = "destroy" /\ out'[j].p = p
             /\ \A j \in DOMAIN out' : IsTeardown(out'[j], p) => j < i]_vars

(***************************************************************************)
(* C16.  The step in which a guest's connection reports open sends exactly *)
(* one message, the first of that connection: a JOIN_REQUEST with the id   *)
(* and the name of the local user.  A browser that is not a host sends in  *)
(* no other step, so a connection carries one JOIN_REQUEST from its guest  *)
(* and nothing else.                                                       *)
(***************************************************************************)
SendsOf(o, p) == {i \in DOMAIN o : o[i].kind = "send" /\ o[i].p = p}

C16_OpenStep ==
  act'.name = "connOpen" =>
    LET p == act'.p
    IN /\ Cardinality(SendsOf(out', p)) = 1
       /\ \A i \in SendsOf(out', p) :
            /\ out'[i].msg = [type |-> JOIN_REQUEST,
                              payload |-> [id |-> currentUser[p].id, name |-> currentUser[p].name]]
            /\ conns[out'[i].conn].sentByGuest = <<>>
            /\ conns[out'[i].conn].st.g = "dialing"
            /\ peers[out'[i].conn].owner = p

C16_GuestSendsNothingElse ==
  \A p \in Browsers :
    ~isHost'[p] /\ SendsOf(out', p) # {} => act'.name = "connOpen" /\ act'.p = p

C16_OneJoinRequest ==
  \A k \in DOMAIN conns : conns[k].sentByGuest \in {<<>>, <<JOIN_REQUEST>>}

C16_JoinRequestOnce ==
  [][C16_OpenStep /\ C16_GuestSendsNothingElse]_vars /\ []C16_OneJoinRequest

(***************************************************************************)
(* C17: the host sends MATCH_START once per session (one connection bound  *)
(* to one pair of players): a step of the host sends MATCH_START exactly   *)
(* when it raises its local MATCH_START, that step is the handling of a    *)
(* JOIN_REQUEST, the message and the event carry the same roomId and the   *)
(* same two players, and the connection has carried no MATCH_START before. *)
(***************************************************************************)
StartSends(o, p) == {i \in DOMAIN o : o[i].kind = "send" /\ o[i].p = p /\ o[i].msg.type = MATCH_START}
HandlesJoinRequest(p) ==
  \E k \in DOMAIN peers :
    /\ conns[k].hp # 0 /\ EndOwner(k, "h") = p
    /\ conns[k].inbox.h # <<>> /\ Head(conns[k].inbox.h).type = JOIN_REQUEST
    /\ conns'[k].inbox.h = Tail(conns[k].inbox.h)
C17_StartStep(p) ==
  LET S == StartSends(out', p)
      E == Events(out', p, MATCH_START)
  IN (S # {} \/ E # {}) =>
       /\ act'.name = "data" /\ act'.p = p /\ HandlesJoinRequest(p)
       /\ Cardinality(S) = 1 /\ Cardinality(E) = 1
       /\ \A i \in S :
            /\ MATCH_START \notin conns[out'[i].conn].sent
            /\ E = {out'[i].msg.payload}
            /\ Len(out'[i].msg.payload.players) = 2
C17_MatchStartOnce == [][\A p \in Browsers : isHost[p] => C17_StartStep(p)]_vars

(***************************************************************************)
(* C18: every MATCH_START event, on the host and on the guest, carries     *)
(* exactly two players, the host's identity first and the guest's second:  *)
(* on the host the second is the sender of the JOIN_REQUEST it handles, on *)
(* the guest it is the local identity and the first is the identity of the *)
(* host at the other end of its connection.                                *)
(***************************************************************************)
PlayerIds(d) == [i \in DOMAIN d.players |-> d.players[i].id]
HostOf(p) == EndOwner(conn[p], "h")
C18_HostStart(p) ==
  \A d \in Events(out', p, MATCH_START) :
    \E k \in DOMAIN peers :
      /\ conns[k].hp # 0 /\ EndOwner(k, "h") = p
      /\ conns[k].inbox.h # <<>> /\ conns'[k].inbox.h = Tail(conns[k].inbox.h)
      /\ PlayerIds(d) = <<currentUser[p].id, currentUser[peers[k].owner].id>>
C18_GuestStart(p) ==
  \A d \in Events(out', p, MATCH_START) :
    PlayerIds(d) = <<currentUser[HostOf(p)].id, currentUser[p].id>>
C18_SamePlayersBothSides ==
  [][\A p \in Browsers : act'.name = "data" /\ act'.p = p =>
       IF isHost[p] THEN C18_HostStart(p) ELSE C18_GuestStart(p)]_vars

(***************************************************************************)
(* C19: for every code createHost can draw, stripping the prefix from the  *)
(* prefixed id gives the code back; the roomId of MATCH_CREATED is that    *)
(* code, and the roomId of every MATCH_START event, on the host and on the *)
(* guest, equals it and equals the code the guest dialed.                  *)
(***************************************************************************)
C19_RoundTrip ==
  \A h \in DOMAIN peers : peers[h].host =>
    /\ peers[h].id = FullId(peers[h].shortCode)
    /\ StrReplace(peers[h].id, ID_PREFIX) = peers[h].shortCode
Dialed(g) == StrTrim(peers[g].shortCode)
C19_RoomIdStep(p) ==
  /\ \A d \in Events(out', p, MATCH_CREATED) : d.roomId = peers[peer[p]].shortCode
  /\ \A d \in Events(out', p, MATCH_START) :
       IF isHost[p] THEN /\ d.roomId = peers[peer[p]].shortCode
                         /\ d.roomId = gameState[p].roomId
                         /\ \A m \in Sends(out', p, MATCH_START) :
                              m.roomId = d.roomId /\ Dialed(conn'[p]) = d.roomId
       ELSE /\ d.roomId = Dialed(peer[p])
            /\ d.roomId = peers[conns[conn[p]].hp].shortCode
C19_CodecRoundTrip ==
  []C19_RoundTrip /\ [][\A p \in Browsers : act'.p = p => C19_RoomIdStep(p)]_vars
C19_Witness ==
  /\ gameState[1].status = ACTIVE /\ gameState[2].status = ACTIVE
  /\ gameState[1].roomId = gameState[2].roomId
  /\ gameState[1].roomId = NumToString(MinCode + CodeSpan - 1)
  /\ peers[2].shortCode # gameState[2].roomId

(***************************************************************************)
(* C20: a guest produces no outcome of its own: a game-loop callback that  *)
(* runs while isHost is false sends and raises nothing, and every          *)
(* DICE_RESULT and every MATCH_END with a winner raised in a guest's       *)
(* browser is the payload of the message at the head of its connection's   *)
(* inbox, which the host sent and which that step consumes.                *)
(***************************************************************************)
FromHost(p, type, d) ==
  /\ act'.name = "data"
  /\ \E k \in DOMAIN peers :
       /\ peers[k].owner = p /\ conns[k].inbox.g # <<>>
       /\ Head(conns[k].inbox.g) = [type |-> type, payload |-> d]
       /\ conns'[k].inbox.g = Tail(conns[k].inbox.g)
C20_GuestStep(p) ==
  /\ act'.name \in {"runGameLoop", "round"} => out' = <<>>
  /\ \A d \in Events(out', p, DICE_RESULT) : FromHost(p, DICE_RESULT, d)
  /\ \A d \in Events(out', p, MATCH_END) : d.winnerId # Null => FromHost(p, MATCH_END, d)
C20_GuestOnlyRenders ==
  [][\A p \in Browsers : ~isHost[p] /\ act'.p = p => C20_GuestStep(p)]_vars

(***************************************************************************)
(* C21: a received message of an unknown type is ignored by the host and   *)
(* by the guest: the step changes no state of the service or of the UI,    *)
(* sends nothing, calls no listener and leaves the connection as it was.   *)
(***************************************************************************)
Listened == {MATCH_CREATED, MATCH_START, DICE_RESULT, MATCH_END, ERROR, CONNECT_ERROR}
Heard(o) == {i \in DOMAIN o : o[i].kind = "event" /\ o[i].type \in Listened}
C21_UnknownIgnored ==
  [][act'.name = "unknown" =>
       /\ Heard(out') = {}
       /\ \A i \in DOMAIN out' : out'[i].kind = "event"
       /\ UNCHANGED <<currentUser, isHost, peer, conn, peerId, players, gameLoopTimeout,
                      connectionTimeout, peers, conns, timers, gameState, view, isJoining, db>>]_vars

(***************************************************************************)
(* C22: the global join timeout is pending only while its own join is      *)
(* still dialing: once the guest's connection has reported open, or the    *)
(* browser has created or joined again, no join timeout of the earlier     *)
(* attempt is pending, and the timeout callback only ever runs for the     *)
(* join that armed it, before its connection opened.                       *)
(***************************************************************************)
JoinTimers(p) == {i \in DOMAIN timers[p] : timers[p][i].kind = T_JOIN}
\* the join of p has not succeeded: its connection never reported open (it sends JOIN_REQUEST when it does)
Dialing(p) ==
  /\ ~isHost[p] /\ peer[p] # 0
  /\ conns[peer[p]].st.g # "open" /\ conns[peer[p]].sentByGuest = <<>>
C22_TimerOfCurrentJoin ==
  \A p \in Browsers : \A i \in JoinTimers(p) :
    timers[p][i].held /\ ~timers[p][i].dead /\ Dialing(p) /\ Cardinality(JoinTimers(p)) = 1
C22_TimeoutStep ==
  [][act'.name = "connectionTimeout" => ~act'.dead /\ Dialing(act'.p)]_vars
C22_JoinTimeoutCancelled == []C22_TimerOfCurrentJoin /\ C22_TimeoutStep
C22_Witness ==
  /\ act.name = "connOpen" /\ conns[conn[act.p]].st.g = "open"
  /\ JoinTimers(act.p) = {} /\ connectionTimeout[act.p] # 0
  /\ \E k \in DOMAIN peers : k # peer[act.p] /\ peers[k].owner = act.p /\ ~peers[k].host

(***************************************************************************)
(* C23: a join never waits forever.  While the lobby is still joining,     *)
(* something that ends the join is always pending: the global timeout, a   *)
(* message on its way to the guest, the guest's request on its way to the  *)
(* host, or the close event of a connection the host has closed.           *)
(***************************************************************************)
Waiting(p) == isJoining[p] /\ ~isHost[p] /\ peer[p] # 0
Pending(p) ==
  LET k == peer[p]
  IN \/ JoinTimers(p) # {}
     \/ conns[k].inbox.g # <<>>
     \/ conns[k].inbox.h # <<>> /\ conns[k].handlers.h /\ conns[k].st.h = "open"
     \/ conns[k].st.g = "open" /\ conns[k].st.h = "closed"
C23_JoinTerminates == \A p \in Browsers : Waiting(p) => Pending(p)

(***************************************************************************)
(* C24: a game-loop callback that runs on a host with fewer than two       *)
(* players bound does nothing: it sends nothing, raises nothing, records   *)
(* no win and schedules no timer; only the fired timer itself is gone.     *)
(***************************************************************************)
C24_NoOpStep(p) ==
  /\ out' = <<>>
  /\ \E i \in DOMAIN timers[p] : timers' = [timers EXCEPT ![p] = RemoveAt(@, i)]
  /\ UNCHANGED <<currentUser, isHost, peer, conn, peerId, players, gameLoopTimeout,
                 connectionTimeout, peers, conns, gameState, view, isJoining, db,
                 decided, decisiveRounds>>
C24_LoopNoOpBelowTwo ==
  [][\A p \in Browsers :
       (/\ act'.p = p /\ act'.name \in {"runGameLoop", "round"}
        /\ isHost[p] /\ Len(players[p]) < 2) => C24_NoOpStep(p)]_vars
C24_Witness ==
  /\ act.name = "runGameLoop" /\ isHost[act.p] /\ Len(players[act.p]) = 1
  /\ out = <<>>

(***************************************************************************)
(* C25: in every state of the UI, roundWinnerId is set only when status is *)
(* COMPLETE.                                                               *)
(***************************************************************************)
C25_WinnerOnlyWhenComplete ==
  \A p \in Browsers : gameState[p].roundWinnerId # Null => gameState[p].status = COMPLETE

(***************************************************************************)
(* C26: GET_LEADERBOARD raises LEADERBOARD_DATA once, with one entry per   *)
(* stored user carrying that user's win count (0 when the record has       *)
(* none), ordered by win count non-increasing, and leaves the store as it  *)
(* was.                                                                    *)
(***************************************************************************)
IsLeaderboardOf(board, store) ==
  /\ Len(board) = Cardinality(DOMAIN store)
  /\ {board[i].name : i \in DOMAIN board} = DOMAIN store
  /\ \A i \in DOMAIN board : board[i].wins = WinsOf(store[board[i].name])
  /\ \A i \in DOMAIN board, j \in DOMAIN board : i < j => board[i].wins >= board[j].wins
C26_Leaderboard ==
  [][act'.name = "getLeaderboard" =>
       /\ db' = db
       /\ Len(out') = 1 /\ out'[1].kind = "event" /\ out'[1].type = LEADERBOARD_DATA
       /\ IsLeaderboardOf(out'[1].data, db[act'.p])]_vars
C26_Witness ==
  /\ act.name = "getLeaderboard" /\ DOMAIN db[1] = StoreNames
  /\ "wins" \notin DOMAIN db[1]["ann"] /\ WinsOf(db[1]["bob"]) = 1 /\ WinsOf(db[1]["cy"]) = 2
  /\ out[1].data = <<[name |-> "cy", wins |-> 2], [name |-> "bob", wins |-> 1],
                     [name |-> "ann", wins |-> 0]>>

(***************************************************************************)
(* C27: once the host's match has ended by abandonment (its connection     *)
(* closed with no decisive round, MATCH_END with a null winner shown), the *)
(* host produces no further round, raises no DICE_RESULT and no MATCH_END  *)
(* with a winner, and records no win.                                      *)
(***************************************************************************)
Abandoned(p) ==
  /\ isHost[p] /\ conn[p] # 0 /\ conns[conn[p]].st.h = "closed"
  /\ ~decided[p]
  /\ gameState[p].status = COMPLETE /\ gameState[p].roundWinnerId = Null
C27_AbandonedStaysEnded ==
  [][\A p \in Browsers : Abandoned(p) /\ act'.p = p =>
       /\ act'.name # "round"
       /\ Events(out', p, DICE_RESULT) = {}
       /\ \A d \in Events(out', p, MATCH_END) : d.winnerId = Null
       /\ db'[p] = db[p]]_vars

(***************************************************************************)
(* C28: create and join issued while nobody is logged in do nothing: no    *)
(* endpoint is constructed, no timer is armed, nothing is raised, sent,    *)
(* closed or destroyed, and no field of the service changes.               *)
(***************************************************************************)
C28_NoIdentityNoOp ==
  [][\A p \in Browsers :
       (act'.p = p /\ act'.name \in {"createHost", "joinHost"} /\ currentUser[p] = NoUser) =>
         /\ out' = <<>>
         /\ UNCHANGED <<currentUser, isHost, peer, conn, peerId, players, gameLoopTimeout,
                        connectionTimeout, peers, conns, timers, gameState, view, db>>]_vars
C28_Witness ==
  /\ act.name = "createHost" /\ currentUser[act.p] = NoUser
  /\ Len(peers) = 1 /\ peers[1].st = "destroyed" /\ peer[act.p] = 0

(***************************************************************************)
(* C29: trigger(e) calls the callbacks registered for e, once per          *)
(* registration and in registration order, and no other; off(e, cb)        *)
(* removes every registration of cb for e and nothing else, and does       *)
(* nothing when e or cb was never registered; once off(e, cb) has run, cb  *)
(* is not called for e again until it is registered again.                 *)
(***************************************************************************)
CallsOf(o) == SelectSeq(o, LAMBDA r : r.kind = "call")
C29_TriggerStep ==
  act'.name = "trigger" =>
    \E event \in BusEvents :
      /\ Len(CallsOf(out')) = Len(Registered(1, event))
      /\ \A i \in DOMAIN CallsOf(out') :
           CallsOf(out')[i].type = event /\ CallsOf(out')[i].cb = Registered(1, event)[i]
C29_OffStep ==
  act'.name = "off" =>
    LET event == out'[1].type
        callback == out'[1].cb
    IN /\ \A e \in DOMAIN listeners[1] \ {event} :
            e \in DOMAIN listeners'[1] /\ listeners'[1][e] = listeners[1][e]
       /\ DOMAIN listeners'[1] = DOMAIN listeners[1]
       /\ event \in DOMAIN listeners[1] =>
            listeners'[1][event] = SelectSeq(listeners[1][event], LAMBDA cb : cb # callback)
C29_NoCallAfterOff ==
  \A i \in DOMAIN out', j \in DOMAIN out' :
    (/\ i < j /\ out'[i].kind = "off" /\ out'[j].kind = "call"
     /\ out'[j].type = out'[i].type /\ out'[j].cb = out'[i].cb)
    => \E m \in i + 1 .. j - 1 :
         out'[m].kind = "on" /\ out'[m].type = out'[i].type /\ out'[m].cb = out'[i].cb
C30_RecordStep ==
  act'.name = "recordWin" =>
    LET u == currentUser[1]
        winnerId == WinnerIds[act'.a]
    IN IF u # NoUser /\ winnerId # Null /\ u.id = winnerId /\ u.name \in DOMAIN db[1]
       THEN /\ DOMAIN db'[1] = DOMAIN db[1]
            /\ WinsOf(db'[1][u.name]) = WinsOf(db[1][u.name]) + 1
            /\ db'[1][u.name].id = db[1][u.name].id
            /\ db'[1][u.name].password = db[1][u.name].password
            /\ \A o \in DOMAIN db[1] \ {u.name} : db'[1][o] = db[1][o]
       ELSE db' = db
C30_NeverDecreases ==
  \A p \in Browsers : \A u \in DOMAIN db[p] :
    u \in DOMAIN db'[p] /\ WinsOf(db'[p][u]) >= WinsOf(db[p][u])
C30_RecordWin == [][C30_RecordStep /\ C30_NeverDecreases]_vars
C30_Witness ==
  /\ act.name = "recordWin"
  /\ currentUser[1] # NoUser
  /\ WinnerIds[act.a] = currentUser[1].id
  /\ currentUser[1].name \in DOMAIN db[1]
  /\ WinsOf(db[1][currentUser[1].name]) = MaxStoredWins
  /\ DOMAIN db[1] # {currentUser[1].name}

(***************************************************************************)
(* C31: on a side whose game state is still Pending, that is, where no     *)
(* MATCH_START was raised since the room was created or the state was      *)
(* reset, no step raises MATCH_END unless it raised MATCH_START first in   *)
(* the same step, and the state stays Pending: a connection closing before *)
(* the handshake completed leaves the waiting host waiting.                *)
(***************************************************************************)
C31_StillPending(p) == gameState[p].status = PENDING /\ Events(out', p, MATCH_START) = {}
C31_MatchEndAfterStart ==
  [][\A p \in Browsers :
       C31_StillPending(p) =>
         /\ Events(out', p, MATCH_END) = {}
         /\ gameState'[p].status = PENDING]_vars

(***************************************************************************)
(* C32: a browser never has more than one pending runGameLoop timer (the   *)
(* 2 s start timer or the 4 s tie re-roll timer), so at most one chain of  *)
(* rounds is live for its players.                                         *)
(***************************************************************************)
C32_OneLoopChain == \A p \in Browsers : CountKind(timers[p], LoopTimers) <= 1

(***************************************************************************)
(* C33: a browser owns at most one endpoint that is not destroyed, the one *)
(* its peer field names; and a create, join or logout step leaves every    *)
(* endpoint it owned before destroyed, the connection it had bound closed  *)
(* on its end, no guest in players, and none of the earlier session's     *)
(* game-loop, reveal or rejection timers pending.                          *)
(***************************************************************************)
LiveEndpoints(p) == {h \in DOMAIN peers : peers[h].owner = p /\ peers[h].st # "destroyed"}
SessionTimers == {T_START, T_REROLL, T_REVEAL, T_REJECT}
C33_OneEndpoint == \A p \in Browsers : LiveEndpoints(p) \subseteq {peer[p]}
C33_Endpoints(p) ==
  /\ \A h \in LiveEndpoints(p) : peers'[h].st = "destroyed"
  /\ conn[p] # 0 => conns'[conn[p]].st[IF peers[conn[p]].owner = p THEN "g" ELSE "h"] = "closed"
  /\ Len(players'[p]) <= 1
C33_Timers(p) == CountKind(timers'[p], SessionTimers) = 0
C33_TeardownStep ==
  \A p \in Browsers :
    (/\ act'.p = p /\ act'.name \in {"createHost", "joinHost", "logout"}
     /\ currentUser[p] # NoUser)
    => C33_Endpoints(p) /\ C33_Timers(p)
C33_OneSession == [][C33_TeardownStep /\ C33_OneEndpoint']_vars

(***************************************************************************)
(* C34: a step in which a host sends or raises MATCH_START, puts a guest   *)
(* into players or schedules the start timer begins in a live session      *)
(* whose players list is the host's own entry alone: the host's endpoint   *)
(* is open, players = [host self], and the pair it builds starts with the  *)
(* host's own entry.                                                       *)
(***************************************************************************)
HostSelfOnly(p) ==
  /\ Len(players[p]) = 1
  /\ players[p][1].isSelf /\ players[p][1].id = currentUser[p].id
LiveSession(p) == isHost[p] /\ peer[p] # 0 /\ peers[peer[p]].st = "open"
Accepts(p) ==
  \/ StartSends(out', p) # {}
  \/ Events(out', p, MATCH_START) # {}
  \/ CountKind(timers'[p], {T_START}) > CountKind(timers[p], {T_START})
  \/ Len(players'[p]) = 2 /\ players'[p] # players[p]
C34_OwnEntry(p) ==
  Accepts(p) => LiveSession(p) /\ Len(players'[p]) = 2 /\ players'[p][1].id = currentUser[p].id
C34_JoinOnlyWhenAlone ==
  [][\A p \in Browsers : Accepts(p) /\ isHost[p] => C34_OwnEntry(p) /\ HostSelfOnly(p)]_vars

(***************************************************************************)
(* C35: what the guest's listeners are given follows the protocol.  The    *)
(* App's status records what it was given so far: ACTIVE from MATCH_START  *)
(* until MATCH_END, COMPLETE after it.  A round result reaches a guest     *)
(* only while ACTIVE and only if it was given no decisive result before;   *)
(* a MATCH_END reaches it only while ACTIVE and names the winner of the    *)
(* decisive result it was given.                                           *)
(***************************************************************************)
SawWinner(p, winnerId) ==
  \/ gameState[p].roundWinnerId = winnerId
  \/ \E i \in DOMAIN timers[p] : timers[p][i].kind = T_UIDICE /\ timers[p][i].winnerId = winnerId
SawDecisive(p) ==
  \/ gameState[p].roundWinnerId # Null
  \/ \E i \in DOMAIN timers[p] : timers[p][i].kind = T_UIDICE /\ timers[p][i].winnerId # Null
C35_Results(p) ==
  Events(out', p, DICE_RESULT) # {} => gameState[p].status = ACTIVE /\ ~SawDecisive(p)
C35_End(p) ==
  \A d \in Events(out', p, MATCH_END) :
    /\ gameState[p].status = ACTIVE
    /\ d.winnerId # Null /\ SawWinner(p, d.winnerId)
C35_GuestOrder ==
  [][\A p \in Procs : (~isHost[p] /\ conn[p] # 0) => C35_Results(p) /\ C35_End(p)]_vars

(***************************************************************************)
(* C36: when the host answers a JOIN_REQUEST that carries its own name, it *)
(* sends CONNECT_ERROR and no MATCH_START, and its endpoint, players and   *)
(* bound connection stay as they are; when its 500 ms timer then runs, the *)
(* rejected connection is closed on the host's end and unbound, with the   *)
(* endpoint still open and players still [host].  After that, the host     *)
(* binds the connection of a guest with another name, answers its          *)
(* JOIN_REQUEST with MATCH_START for [host, guest], and that guest is      *)
(* never left waiting with nothing pending.                                *)
(***************************************************************************)
RoomOpen(p) ==
  /\ isHost[p] /\ peer[p] # 0 /\ peers[peer[p]].st = "open"
  /\ HostSelfOnly(p)
C36_RejectStep ==
  (/\ act'.name = "data" /\ act'.p = 1 /\ HandlesJoinRequest(1)
   /\ \E k \in DOMAIN peers : conns[k].inbox.h # <<>>
         /\ conns'[k].inbox.h = Tail(conns[k].inbox.h)
         /\ Head(conns[k].inbox.h).payload.name = currentUser[1].name)
  => /\ Sends(out', 1, CONNECT_ERROR) # {}
     /\ StartSends(out', 1) = {} /\ Events(out', 1, MATCH_START) = {}
     /\ RoomOpen(1) /\ RoomOpen(1)'
     /\ conn' = conn /\ peers' = peers /\ players' = players
C36_CloseStep ==
  (act'.name = "rejectClose" /\ act'.p = 1 /\ conn[1] # 0)
  => /\ conn'[1] = 0
     /\ conns'[conn[1]].st.h = "closed"
     /\ RoomOpen(1)' /\ peers' = peers /\ players' = players /\ peerId' = peerId
C36_LaterGuest ==
  Rejected /\ peer[3] # 0 =>
    /\ (act'.name = "hostConnection" /\ conns[peer[3]].st.h = "none" /\ conns'[peer[3]].st.h # "none")
         => conn'[1] = peer[3] /\ conns'[peer[3]].handlers.h /\ conns'[peer[3]].st.h # "closed"
    /\ (/\ act'.name = "data" /\ act'.p = 1
        /\ conns[peer[3]].inbox.h # <<>> /\ conns'[peer[3]].inbox.h = Tail(conns[peer[3]].inbox.h))
         => /\ \A i \in StartSends(out', 1) : out'[i].conn = peer[3]
            /\ StartSends(out', 1) # {}
            /\ PlayerIds([players |-> players'[1]]) = <<currentUser[1].id, currentUser[3].id>>
    /\ Waiting(3) => Pending(3)
C36_RoomSurvivesRejection == [][C36_RejectStep /\ C36_CloseStep /\ C36_LaterGuest]_vars
\* the later guest has been given MATCH_START with the host and itself
C36_Witness ==
  /\ Rejected
  /\ gameState[3].status = ACTIVE
  /\ PlayerIds(gameState[3]) = <<currentUser[1].id, currentUser[3].id>>
  /\ gameState[2].status # ACTIVE

(***************************************************************************)
(* C37: a login request with an empty username or password, or with the    *)
(* name of a stored record and another password than the stored one,       *)
(* raises LOGIN_FAIL and no LOGIN_SUCCESS and leaves currentUser, the      *)
(* session item and the store as they were; LOGIN_SUCCESS is raised only   *)
(* by a login request whose fields are not empty and whose username has no *)
(* record or has one with that password.                                   *)
(***************************************************************************)
Request == out'[1]
BadRequest ==
  \/ Request.username = "" \/ Request.password = ""
  \/ /\ Request.username \in DOMAIN db[1]
     /\ db[1][Request.username].password # Request.password
C37_LoginStep ==
  act'.name = "login" =>
    /\ BadRequest =>
         /\ Events(out', 1, LOGIN_FAIL) # {} /\ Events(out', 1, LOGIN_SUCCESS) = {}
         /\ currentUser' = currentUser /\ session' = session /\ db' = db
    /\ Events(out', 1, LOGIN_SUCCESS) # {} =>
         /\ Request.username # "" /\ Request.password # ""
         /\ \/ Request.username \notin DOMAIN db[1]
            \/ db[1][Request.username].password = Request.password
C37_SuccessOnlyByLogin ==
  \A p \in Browsers : Events(out', p, LOGIN_SUCCESS) # {} => act'.name = "login" /\ act'.p = p
C37_LoginFail == [][C37_LoginStep /\ C37_SuccessOnlyByLogin]_vars
\* a wrong password for a stored name has just been refused
C37_Witness ==
  /\ act.name = "login"
  /\ out[1].username \in DOMAIN db[1]
  /\ out[1].password # "" /\ db[1][out[1].username].password # out[1].password
  /\ Events(out, 1, LOGIN_FAIL) # {}
  /\ currentUser[1] # NoUser /\ session[1] = currentUser[1]
  /\ currentUser[1].name # out[1].username

(***************************************************************************)
(* C38: a login request with a username that has no record in the store    *)
(* (and non-empty fields) creates a record with the request's password and *)
(* wins = 0, leaves the other records as they were and succeeds; a         *)
(* successful login with a stored username takes the identity id from the  *)
(* record, keeps the record's id, password and win count, and leaves the   *)
(* other records as they were.                                             *)
(***************************************************************************)
OthersKept(username) ==
  \A o \in DOMAIN db[1] \ {username} : o \in DOMAIN db'[1] /\ db'[1][o] = db[1][o]
C38_Register ==
  (/\ Request.username # "" /\ Request.password # ""
   /\ Request.username \notin DOMAIN db[1])
  => /\ Request.username \in DOMAIN db'[1]
     /\ db'[1][Request.username].password = Request.password
     /\ "wins" \in DOMAIN db'[1][Request.username] /\ db'[1][Request.username].wins = 0
     /\ DOMAIN db'[1] = DOMAIN db[1] \cup {Request.username}
     /\ OthersKept(Request.username)
     /\ Events(out', 1, LOGIN_SUCCESS) # {}
     /\ currentUser'[1] = [id |-> db'[1][Request.username].id, name |-> Request.username]
C38_Relogin ==
  (Events(out', 1, LOGIN_SUCCESS) # {} /\ Request.username \in DOMAIN db[1])
  => /\ currentUser'[1] = [id |-> db[1][Request.username].id, name |-> Request.username]
     /\ DOMAIN db'[1] = DOMAIN db[1]
     /\ db'[1][Request.username].id = db[1][Request.username].id
     /\ db'[1][Request.username].password = db[1][Request.username].password
     /\ WinsOf(db'[1][Request.username]) = WinsOf(db[1][Request.username])
     /\ OthersKept(Request.username)
C38_LoginCreatesOnce == [][act'.name = "login" => C38_Register /\ C38_Relogin]_vars

(***************************************************************************)
(* C39: a logout step leaves the browser without identity and without      *)
(* session item, with conn, peer and players cleared, every endpoint it    *)
(* owned destroyed and no timer of the service pending; and while nobody   *)
(* is logged in, asking the service to create or join changes nothing.     *)
(***************************************************************************)
C39_LoggedOut(p) ==
  /\ currentUser'[p] = NoUser /\ session'[p] = NoUser
  /\ conn'[p] = 0 /\ peer'[p] = 0 /\ players'[p] = <<>>
  /\ \A h \in DOMAIN peers : peers[h].owner = p => peers'[h].st = "destroyed"
C39_TimersCancelled(p) == CountKind(timers'[p], ServiceTimers) = 0
C39_IntentNoOp ==
  \A p \in Procs :
    (act'.p = p /\ act'.name \in {"createHost", "joinHost"} /\ currentUser[p] = NoUser)
    => /\ out' = <<>>
       /\ UNCHANGED <<currentUser, session, isHost, peer, conn, peerId, players, gameLoopTimeout,
                      connectionTimeout, peers, conns, timers, gameState, view, isJoining, db>>
C39_Logout ==
  [][/\ \A p \in Procs : (act'.name = "logout" /\ act'.p = p)
                           => C39_LoggedOut(p) /\ C39_TimersCancelled(p)
     /\ C39_IntentNoOp]_vars

====
